---- MODULE Spec2Model ----
(***************************************************************************)
(* StreamFlow video transcoder: the Dispatchers (polling loop, Lambda      *)
(* handler), the upload-URL issuance step, the metadata store and the      *)
(* transcoding Job, as state machines.                                     *)
(*                                                                         *)
(* Text is modelled as a sequence of tokens.  Object keys are sequences of *)
(* one-character tokens, so that basename, split and extension stripping   *)
(* are computed the way node's path module and String.split compute them.  *)
(***************************************************************************)
EXTENDS Integers, Sequences, FiniteSets, TLC

\* ------------------------------------------------------------------------
\* Bounds of the model
\* ------------------------------------------------------------------------
\* Date.now() takes values 1..MaxClock
MaxClock == 2
\* how many times the launcher runs the Job for the same key (SpecRerun)
MaxRuns == 2
\* failures of the environment (S3, DynamoDB, ffmpeg, file system) per behaviour in
\* the specifications that run more than one process
MaxFaults == 1

\* ------------------------------------------------------------------------
\* Text helpers (String.prototype / node:path)
\* ------------------------------------------------------------------------
FILENAME_SEPARATOR == <<"#", "#", "#">>

RECURSIVE Digits(_)
\* Number.prototype.toString, base 10, as used by template literals
Digits(n) ==
    LET d == <<"0", "1", "2", "3", "4", "5", "6", "7", "8", "9">>
    IN  IF n < 10 THEN <<d[n + 1]>> ELSE Digits(n \div 10) \o <<d[(n % 10) + 1]>>

\* s.startsWith(sub, i - 1): sub occurs in s at 1-based position i
OccursAt(s, sub, i) ==
    /\ i >= 1
    /\ i + Len(sub) - 1 <= Len(s)
    /\ \A k \in 1..Len(sub) : s[i + k - 1] = sub[k]

\* s.indexOf(sub) as a 1-based position, 0 when sub does not occur
IndexOf(s, sub) ==
    LET hits == {i \in 1..Len(s) : OccursAt(s, sub, i)}
    IN  IF hits = {} THEN 0 ELSE CHOOSE i \in hits : \A j \in hits : i <= j

\* s.lastIndexOf(sub) as a 1-based position, 0 when sub does not occur
LastIndexOf(s, sub) ==
    LET hits == {i \in 1..Len(s) : OccursAt(s, sub, i)}
    IN  IF hits = {} THEN 0 ELSE CHOOSE i \in hits : \A j \in hits : i >= j

\* s.includes(sub)
Includes(s, sub) == IndexOf(s, sub) # 0

RECURSIVE Split(_, _)
\* s.split(sep) for a non-empty separator: every piece, in order
Split(s, sep) ==
    LET i == IndexOf(s, sep)
    IN  IF i = 0 THEN <<s>>
        ELSE <<SubSeq(s, 1, i - 1)>> \o Split(SubSeq(s, i + Len(sep), Len(s)), sep)

RECURSIVE StripTrailingSlashes(_)
StripTrailingSlashes(s) ==
    IF Len(s) > 1 /\ s[Len(s)] = "/" THEN StripTrailingSlashes(SubSeq(s, 1, Len(s) - 1))
    ELSE s

\* a filename that is the whole key, directories included
BasenameWhole(p) == p

\* path.basename(p) (posix): the last path segment, trailing slashes ignored
\* (q is bound by a quantifier so that it is computed once)
Basename(p) ==
    CHOOSE b \in {IF q = <<"/">> THEN <<>> ELSE SubSeq(q, LastIndexOf(q, <<"/">>) + 1, Len(q)) :
                      q \in {StripTrailingSlashes(p)}} : TRUE

\* path.parse(p).name (posix): the basename without its last extension; a
\* leading dot does not start an extension
ParseName(p) ==
    LET b == Basename(p)
        i == LastIndexOf(b, <<".">>)
    IN  IF i <= 1 THEN b ELSE SubSeq(b, 1, i - 1)

\* s.replace(/\+/g, ' ')
PlusToSpace(s) == [i \in 1..Len(s) |-> IF s[i] = "+" THEN " " ELSE s[i]]

\* the percent escapes the model's keys use, by their two hex digits
HexPairs == {<<"2", "3">>, <<"2", "0">>, <<"2", "F">>, <<"0", "A">>, <<"5", "C">>}

HexChar(h) ==
    CASE h = <<"2", "3">> -> "#"
      [] h = <<"2", "0">> -> " "
      [] h = <<"2", "F">> -> "/"
      [] h = <<"0", "A">> -> "\n"
      [] h = <<"5", "C">> -> "\\"

RECURSIVE DecodeOk(_)
\* decodeURIComponent(s) does not throw URIError: every "%" starts an escape
DecodeOk(s) ==
    IF s = <<>> THEN TRUE
    ELSE IF s[1] = "%"
         THEN /\ Len(s) >= 3
              /\ <<s[2], s[3]>> \in HexPairs
              /\ DecodeOk(SubSeq(s, 4, Len(s)))
         ELSE DecodeOk(Tail(s))

RECURSIVE DecodeURIComponent(_)
\* decodeURIComponent(s), for s with DecodeOk(s)
DecodeURIComponent(s) ==
    IF s = <<>> THEN <<>>
    ELSE IF s[1] = "%"
         THEN <<HexChar(<<s[2], s[3]>>)>> \o DecodeURIComponent(SubSeq(s, 4, Len(s)))
         ELSE <<s[1]>> \o DecodeURIComponent(Tail(s))

\* decodeURIComponent(record.s3.object.key.replace(/\+/g, ' '))
DecodeKey(k) == DecodeURIComponent(PlusToSpace(k))

\* [\x00-\x1F]
ControlChars == {"\n", "\t", "\r"}

\* [a-zA-Z0-9\-_\/.#]
AllowedChars ==
    {"a","b","c","d","e","f","g","h","i","j","k","l","m","n","o","p","q","r","s","t",
     "u","v","w","x","y","z",
     "A","B","C","D","E","F","G","H","I","J","K","L","M","N","O","P","Q","R","S","T",
     "U","V","W","X","Y","Z",
     "0","1","2","3","4","5","6","7","8","9",
     "-", "_", "/", ".", "#"}

\* a validator that runs the allow-list test alone
isAllowListedPath(p) ==
    /\ Len(p) >= 1
    /\ \A i \in 1..Len(p) : p[i] \in AllowedChars

\* isValidVideoPath(path)
isValidVideoPath(p) ==
    IF \/ \E i \in 1..Len(p) : p[i] \in ControlChars
       \/ Includes(p, <<".", ".", "/">>)
       \/ Includes(p, <<".", ".", "\\">>)
    THEN FALSE
    ELSE /\ Len(p) >= 1
         /\ \A i \in 1..Len(p) : p[i] \in AllowedChars

\* ------------------------------------------------------------------------
\* State
\* ------------------------------------------------------------------------
VARIABLES
    now,          \* the wall clock read by Date.now() / new Date()
    budget,       \* failures the environment may still inject (-1: no limit)
    store,        \* the VideoMetadata table: videoId -> item
    \* --- the Job process (job/index.js), one container at a time
    runs,         \* how many Job processes have been started
    env,          \* the environment bound at launch
    outputPrefix, \* OUTPUT_PREFIX as evaluated at module load
    jpc,          \* position of main()
    task,         \* state of each ENCODING task (renditions and sprite)
    joinErr,      \* rejection reason of Promise.all([...hlsPromises, spritePromise])
    error,        \* the error main() is failing with (<<>>: none)
    outExists,    \* LOCAL_OUTPUT_DIR exists
    outDirs,      \* sub-directories of LOCAL_OUTPUT_DIR
    outFiles,     \* files below LOCAL_OUTPUT_DIR, as relative paths
    srcExists,    \* LOCAL_SOURCE_VIDEO exists
    upState,      \* the PutObject call of each file listed by uploadDirectoryToS3
    upErr,        \* rejection reason of Promise.all(uploadPromises)
    uploaded,     \* objects this run has put below its output prefix
    resultFile,   \* the manifest.json contents this run has put below its prefix, in order
    exitCode,     \* process exit code (-1: still running)
    dbCalls,      \* updateVideoMetadata calls of this run, in order
    rmCalls,      \* fs.rm calls the finally block has made in this run
    \* --- the queue (SQS) and the launcher (ECS RunTask)
    queue,        \* every message sent, by id: body, state, receive count
    launches,     \* the RunTask calls that returned successfully, in order
    \* --- the polling Dispatcher (init loop)
    variant,      \* "plain": no overlay lookup; "overlay": overlay required
    ppc,          \* position of the loop
    cur,          \* id of the message being processed (0: none)
    recIdx,       \* index of the record being processed
    wmKey,        \* watermarkKey of the record being processed
    dDecided,     \* records of this delivery decided so far (rejected or launched)
    dLaunched,    \* records of this delivery whose RunTask call returned
    dFailed,      \* records of this delivery whose RunTask call threw
    dAcks,        \* DeleteMessage calls issued in this delivery, in order
    metadata,     \* the VideoMetadata item the Lambda Dispatcher built for the record
    running,      \* index in launches of the launch the Job process belongs to, or 0
    uploadResp,   \* what getUploadUrl answered
    vcase,        \* a key put to the validator and what the Dispatcher made of it
    playlist,     \* createMasterPlaylist at work: its catalog and the text built so far
    vtt,          \* the timeline loop of generateSpriteSheet: duration, index, entries
    batch         \* one invocation of the Lambda handler with a batch of messages

sqsVars == <<queue, launches>>

pollVars == <<variant, ppc, cur, recIdx, wmKey, dDecided, dLaunched, dFailed, dAcks, metadata>>

apiVars == <<running, uploadResp, vcase, playlist, vtt, batch>>

jobVars == <<runs, env, outputPrefix, jpc, task, joinErr, error, outExists, outDirs,
             outFiles, srcExists, upState, upErr, uploaded, resultFile, exitCode,
             dbCalls, rmCalls>>

vars == <<now, budget, store, jobVars, sqsVars, pollVars, apiVars>>

\* ------------------------------------------------------------------------
\* The environment
\* ------------------------------------------------------------------------
\* a call to the environment succeeds (ok) or fails; a failure uses up budget
Outcome(ok) ==
    /\ ok \/ budget # 0
    /\ budget' = IF ok \/ budget < 0 THEN budget ELSE budget - 1

\* ------------------------------------------------------------------------
\* The metadata store (DynamoDB table VideoMetadata, key videoId)
\* ------------------------------------------------------------------------
Attrs == {"status", "thumbnailUrl", "masterPlaylistUrl", "errorMessage", "completedAt",
          "outputPrefix", "sourceKey", "username", "title", "createdAt"}

\* an attribute that is not set is the empty text
Absent == <<>>

EmptyItem == [a \in Attrs |-> Absent]

\* PutCommand: the item replaces whatever was stored under the key
DbPut(s, id, item) ==
    [k \in DOMAIN s \cup {id} |->
        IF k = id THEN [a \in Attrs |-> IF a \in DOMAIN item THEN item[a] ELSE Absent]
        ELSE s[k]]

\* UpdateCommand with "SET k = :k, ..." built by buildUpdateExpression /
\* buildExpressionAttributeValues: only the attributes named in updates are
\* assigned, the others keep their value; a missing item is created
DbUpdate(s, id, updates) ==
    LET old == IF id \in DOMAIN s THEN s[id] ELSE EmptyItem
    IN  [k \in DOMAIN s \cup {id} |->
            IF k = id THEN [a \in Attrs |-> IF a \in DOMAIN updates THEN updates[a] ELSE old[a]]
            ELSE s[k]]

\* new Date().toISOString(): the clock value as text
IsoTime(t) == Digits(t)

\* Date.now() / new Date(): the clock is read as t; time may have passed since
\* it was last read
ReadClock(t) ==
    /\ t \in now..MaxClock
    /\ now' = t

\* ------------------------------------------------------------------------
\* The transcoding Job (job/index.js)
\* ------------------------------------------------------------------------
RESOLUTIONS ==
    << [name |-> "360p", width |-> 640,  height |-> 360, bv |-> <<"8","0","0","k">>,     ba |-> <<"9","6","k">>],
       [name |-> "480p", width |-> 854,  height |-> 480, bv |-> <<"1","4","0","0","k">>, ba |-> <<"1","2","8","k">>],
       [name |-> "720p", width |-> 1280, height |-> 720, bv |-> <<"2","8","0","0","k">>, ba |-> <<"1","2","8","k">>] >>

ResNames == {RESOLUTIONS[i].name : i \in 1..Len(RESOLUTIONS)}

Sprite == "sprite"

\* the concurrent tasks of the ENCODING stage
Tasks == ResNames \cup {Sprite}

DESTINATION_BUCKET == <<"dst">>
SOURCE_BUCKET == <<"src">>

\* files ffmpeg's hls muxer leaves in a rendition directory
RenditionFiles(r) == { <<r, "playlist.m3u8">>, <<r, "segment000.ts">> }

\* path.join(prefix, path.relative(dirPath, localFilePath)) with "/" separators
S3Key(prefix, rel) ==
    IF Len(rel) = 1 THEN prefix \o rel ELSE prefix \o <<rel[1], "/", rel[2]>>

\* OUTPUT_PREFIX = process.env.OUTPUT_PREFIX || `processed/${path.parse(VIDEO_KEY).name}-${Date.now()}/`
OutputPrefixOf(e, t) ==
    IF e.OUTPUT_PREFIX # <<>> THEN e.OUTPUT_PREFIX
    ELSE <<"processed/">> \o ParseName(e.VIDEO_KEY) \o <<"-">> \o Digits(t) \o <<"/">>

\* const videoId = path.parse(VIDEO_KEY).name
JobVideoId(e) == ParseName(e.VIDEO_KEY)

ThumbnailUrl(prefix) ==
    <<"https://s3.ap-south-1.amazonaws.com/">> \o DESTINATION_BUCKET \o <<"/">> \o prefix
        \o <<"sprite.jpg#xywh=0,0,160,90">>

MasterPlaylistUrl(prefix) ==
    <<"https://s3.ap-south-1.amazonaws.com/">> \o DESTINATION_BUCKET \o <<"/">> \o prefix
        \o <<"master.m3u8">>

\* a result file that names the master playlist whatever the status
ManifestContentAlways(prefix, status, errorMessage, thumbnailUrl, masterPlaylistUrl, t) ==
    [ status            |-> status,
      sourceVideo       |-> <<"s3://">> \o SOURCE_BUCKET \o <<"/">> \o env.VIDEO_KEY,
      outputPrefix      |-> prefix,
      masterPlaylist    |-> prefix \o <<"master.m3u8">>,
      thumbnailUrl      |-> thumbnailUrl,
      masterPlaylistUrl |-> masterPlaylistUrl,
      timestamp         |-> IsoTime(t),
      error             |-> errorMessage ]

\* the object createAndUploadManifest serialises
ManifestContent(prefix, status, errorMessage, thumbnailUrl, masterPlaylistUrl, t) ==
    [ status            |-> status,
      sourceVideo       |-> <<"s3://">> \o SOURCE_BUCKET \o <<"/">> \o env.VIDEO_KEY,
      outputPrefix      |-> prefix,
      masterPlaylist    |-> IF status = <<"COMPLETED">> THEN prefix \o <<"master.m3u8">> ELSE Absent,
      thumbnailUrl      |-> thumbnailUrl,
      masterPlaylistUrl |-> masterPlaylistUrl,
      timestamp         |-> IsoTime(t),
      error             |-> errorMessage ]

\* error messages
ErrMkdir == <<"mkdir failed">>
ErrDownload == <<"download failed">>
ErrResMkdir(r) == <<"mkdir failed for ", r>>
ErrFfmpeg(r) == <<"FFmpeg error for ", r, ": ", "encoder failed">>
ErrProbe == <<"ffprobe error: ", "probe failed">>
ErrSprite == <<"Sprite generation error: ", "tile failed">>
ErrVtt == <<"write thumbnails.vtt failed">>
ErrMaster == <<"write master.m3u8 failed">>
ErrReaddir == <<"readdir failed">>
ErrPut == <<"PutObject failed">>
ErrManifest == <<"PutObject failed for manifest.json">>

\* a fresh process: module-level constants evaluated, main() about to run
JobStart(e, t) ==
    /\ env' = e
    /\ outputPrefix' = OutputPrefixOf(e, t)
    /\ jpc' = "mkdir"
    /\ task' = [x \in Tasks |-> "idle"]
    /\ joinErr' = <<>>
    /\ error' = <<>>
    /\ outExists' = FALSE
    /\ outDirs' = {}
    /\ outFiles' = {}
    /\ srcExists' = FALSE
    /\ upState' = <<>>
    /\ upErr' = <<>>
    /\ uploaded' = {}
    /\ resultFile' = <<>>
    /\ exitCode' = -1
    /\ dbCalls' = <<>>
    /\ rmCalls' = {}

Alive == jpc \notin {"idle", "exited"}

\* what no step of the Job touches
JobFrame == UNCHANGED <<sqsVars, pollVars, apiVars>>

\* control reaches the catch block of main() with error e
Throw(e) ==
    /\ error' = e
    /\ jpc' = "catchDb"

\* the other variables of the Job, left alone by a step of one task
TaskFrame == UNCHANGED <<now, store, runs, env, outputPrefix, jpc, error, srcExists,
                         upState, upErr, uploaded, resultFile, exitCode, dbCalls, rmCalls,
                         sqsVars, pollVars, apiVars>>

\* await fs.mkdir(LOCAL_OUTPUT_DIR, { recursive: true })
J_Mkdir ==
    /\ jpc = "mkdir"
    /\ \E ok \in BOOLEAN :
          /\ Outcome(ok)
          /\ IF ok THEN /\ outExists' = TRUE
                        /\ jpc' = "download"
                        /\ UNCHANGED error
             ELSE /\ Throw(ErrMkdir)
                  /\ UNCHANGED outExists
    /\ UNCHANGED <<now, store, runs, env, outputPrefix, task, joinErr, outDirs, outFiles,
                   srcExists, upState, upErr, uploaded, resultFile, exitCode, dbCalls, rmCalls>>
    /\ JobFrame

\* await downloadFile(SOURCE_BUCKET, VIDEO_KEY, LOCAL_SOURCE_VIDEO): GetObject, then
\* fs.writeFile; either failure is rethrown
J_Download ==
    /\ jpc = "download"
    /\ \E ok \in BOOLEAN :
          /\ Outcome(ok)
          /\ IF ok THEN /\ srcExists' = TRUE
                        /\ jpc' = "startEncode"
                        /\ UNCHANGED error
             ELSE /\ Throw(ErrDownload)
                  /\ UNCHANGED srcExists
    /\ UNCHANGED <<now, store, runs, env, outputPrefix, task, joinErr, outExists, outDirs,
                   outFiles, upState, upErr, uploaded, resultFile, exitCode, dbCalls, rmCalls>>
    /\ JobFrame

\* RESOLUTIONS.map(transcodeToHLS), generateSpriteSheet(...), Promise.all([...]):
\* every task is started in the same synchronous stretch, then main() awaits the join
J_StartEncode ==
    /\ jpc = "startEncode"
    /\ task' = [x \in Tasks |-> IF x = Sprite THEN "probe" ELSE "mkdir"]
    /\ jpc' = "awaitEncode"
    /\ UNCHANGED <<now, store, runs, env, outputPrefix, joinErr, error, outExists, outDirs,
                   outFiles, srcExists, upState, upErr, uploaded, resultFile, exitCode,
                   dbCalls, rmCalls>>
    /\ UNCHANGED budget
    /\ JobFrame

\* a join that keeps the error of the latest rejection
RejectLatest(x, e) ==
    /\ task' = [task EXCEPT ![x] = "failed"]
    /\ joinErr' = e

\* a task's promise rejects: Promise.all rejects with the first rejection only
Reject(x, e) ==
    /\ task' = [task EXCEPT ![x] = "failed"]
    /\ joinErr' = IF joinErr = <<>> THEN e ELSE joinErr

\* transcodeToHLS: fs.mkdir(resolutionDir, { recursive: true })
T_Mkdir(r) ==
    /\ Alive
    /\ task[r] = "mkdir"
    /\ \E ok \in BOOLEAN :
          /\ Outcome(ok)
          /\ IF ok THEN /\ task' = [task EXCEPT ![r] = "running"]
                        /\ outExists' = TRUE
                        /\ outDirs' = outDirs \cup {r}
                        /\ UNCHANGED joinErr
             ELSE /\ Reject(r, ErrResMkdir(r))
                  /\ UNCHANGED <<outExists, outDirs>>
    /\ UNCHANGED outFiles
    /\ TaskFrame

\* transcodeToHLS: ffmpeg ends ('end' -> resolve) or fails ('error' -> reject); it
\* cannot write into a directory that is gone
T_Ffmpeg(r) ==
    /\ Alive
    /\ task[r] = "running"
    /\ \E ok \in BOOLEAN :
          /\ Outcome(ok)
          /\ IF ok /\ r \in outDirs
             THEN /\ task' = [task EXCEPT ![r] = "ok"]
                  /\ outFiles' = outFiles \cup RenditionFiles(r)
                  /\ UNCHANGED joinErr
             ELSE /\ Reject(r, ErrFfmpeg(r))
                  /\ UNCHANGED outFiles
    /\ UNCHANGED <<outExists, outDirs>>
    /\ TaskFrame

\* generateSpriteSheet: ffmpeg.ffprobe(LOCAL_SOURCE_VIDEO, ...)
S_Probe ==
    /\ Alive
    /\ task[Sprite] = "probe"
    /\ \E ok \in BOOLEAN :
          /\ Outcome(ok)
          /\ IF ok THEN /\ task' = [task EXCEPT ![Sprite] = "tile"]
                        /\ UNCHANGED joinErr
             ELSE Reject(Sprite, ErrProbe)
    /\ UNCHANGED <<outExists, outDirs, outFiles>>
    /\ TaskFrame

\* generateSpriteSheet: the fps/scale/tile pass that writes sprite.jpg
S_Tile ==
    /\ Alive
    /\ task[Sprite] = "tile"
    /\ \E ok \in BOOLEAN :
          /\ Outcome(ok)
          /\ IF ok /\ outExists
             THEN /\ task' = [task EXCEPT ![Sprite] = "vtt"]
                  /\ outFiles' = outFiles \cup {<<"sprite.jpg">>}
                  /\ UNCHANGED joinErr
             ELSE /\ Reject(Sprite, ErrSprite)
                  /\ UNCHANGED outFiles
    /\ UNCHANGED <<outExists, outDirs>>
    /\ TaskFrame

\* generateSpriteSheet: await fs.writeFile(localVttPath, vttContent)
S_Vtt ==
    /\ Alive
    /\ task[Sprite] = "vtt"
    /\ \E ok \in BOOLEAN :
          /\ Outcome(ok)
          /\ IF ok /\ outExists
             THEN /\ task' = [task EXCEPT ![Sprite] = "ok"]
                  /\ outFiles' = outFiles \cup {<<"thumbnails.vtt">>}
                  /\ UNCHANGED joinErr
             ELSE /\ Reject(Sprite, ErrVtt)
                  /\ UNCHANGED outFiles
    /\ UNCHANGED <<outExists, outDirs>>
    /\ TaskFrame

\* a join fulfilled as soon as one task has resolved
JoinAnyResolved == \E x \in Tasks : task[x] = "ok"

\* Promise.all([...hlsPromises, spritePromise]) is fulfilled: every task resolved
JoinFulfilled == \A x \in Tasks : task[x] = "ok"

\* a join that resumes main() once every task has settled, resolved or rejected
J_AwaitEncodeSettled ==
    /\ jpc = "awaitEncode"
    /\ \A x \in Tasks : task[x] \in {"ok", "failed"}
    /\ jpc' = "master"
    /\ UNCHANGED <<now, budget, store, runs, env, outputPrefix, task, joinErr, error,
                   outExists, outDirs, outFiles, srcExists, upState, upErr, uploaded,
                   resultFile, exitCode, dbCalls, rmCalls>>
    /\ JobFrame

\* await Promise.all([...hlsPromises, spritePromise]) resumes main()
J_AwaitEncode ==
    /\ jpc = "awaitEncode"
    /\ \/ /\ JoinFulfilled
          /\ jpc' = "master"
          /\ UNCHANGED error
       \/ /\ joinErr # <<>>
          /\ Throw(joinErr)
    /\ UNCHANGED <<now, store, runs, env, outputPrefix, task, joinErr, outExists, outDirs,
                   outFiles, srcExists, upState, upErr, uploaded, resultFile, exitCode,
                   dbCalls, rmCalls>>
    /\ UNCHANGED budget
    /\ JobFrame

\* await createMasterPlaylist(RESOLUTIONS, LOCAL_OUTPUT_DIR)
J_Master ==
    /\ jpc = "master"
    /\ \E ok \in BOOLEAN :
          /\ Outcome(ok)
          /\ IF ok /\ outExists
             THEN /\ outFiles' = outFiles \cup {<<"master.m3u8">>}
                  /\ jpc' = "upload"
                  /\ UNCHANGED error
             ELSE /\ Throw(ErrMaster)
                  /\ UNCHANGED outFiles
    /\ UNCHANGED <<now, store, runs, env, outputPrefix, task, joinErr, outExists, outDirs,
                   srcExists, upState, upErr, uploaded, resultFile, exitCode, dbCalls, rmCalls>>
    /\ JobFrame

\* uploadDirectoryToS3: fs.readdir(..., recursive), then one PutObject per file,
\* all sent before Promise.all(uploadPromises) is awaited
J_Upload ==
    /\ jpc = "upload"
    /\ \E ok \in BOOLEAN :
          /\ Outcome(ok)
          /\ IF ok /\ outExists
             THEN /\ upState' = [f \in outFiles |-> "sent"]
                  /\ jpc' = "awaitUpload"
                  /\ UNCHANGED error
             ELSE /\ Throw(ErrReaddir)
                  /\ UNCHANGED upState
    /\ UNCHANGED <<now, store, runs, env, outputPrefix, task, joinErr, outExists, outDirs,
                   outFiles, srcExists, upErr, uploaded, resultFile, exitCode, dbCalls, rmCalls>>
    /\ JobFrame

\* one PutObject call settles.  Promise.all(uploadPromises) rejects with the first
\* rejection; a call that fails after that is observed by nothing and is left "sent"
U_Put(f) ==
    /\ Alive
    /\ f \in DOMAIN upState
    /\ upState[f] = "sent"
    /\ \E ok \in BOOLEAN :
          /\ Outcome(ok)
          /\ IF ok THEN /\ upState' = [upState EXCEPT ![f] = "done"]
                        /\ uploaded' = uploaded \cup {S3Key(outputPrefix, f)}
                        /\ UNCHANGED upErr
             ELSE /\ upErr = <<>>
                  /\ upState' = [upState EXCEPT ![f] = "failed"]
                  /\ upErr' = ErrPut
                  /\ UNCHANGED uploaded
    /\ UNCHANGED <<now, store, runs, env, outputPrefix, jpc, task, joinErr, error, outExists,
                   outDirs, outFiles, srcExists, resultFile, exitCode, dbCalls, rmCalls>>
    /\ JobFrame

\* Promise.all(uploadPromises) is fulfilled with one upload done, whatever the others
UploadsAnyDone == \E f \in DOMAIN upState : upState[f] = "done"

\* Promise.all(uploadPromises) is fulfilled: every PutObject call resolved
UploadsFulfilled == \A f \in DOMAIN upState : upState[f] = "done"

\* await Promise.all(uploadPromises) resumes main()
J_AwaitUpload ==
    /\ jpc = "awaitUpload"
    /\ \/ /\ UploadsFulfilled
          /\ jpc' = "statusDb"
          /\ UNCHANGED error
       \/ /\ upErr # <<>>
          /\ Throw(upErr)
    /\ UNCHANGED <<now, store, runs, env, outputPrefix, task, joinErr, outExists, outDirs,
                   outFiles, srcExists, upState, upErr, uploaded, resultFile, exitCode,
                   dbCalls, rmCalls>>
    /\ UNCHANGED budget
    /\ JobFrame

\* updateVideoMetadata(videoId, updates) of db-utils.js: one UpdateCommand; an
\* error of the store is logged and swallowed
UpdateVideoMetadata(s, id, updates, ok) ==
    IF ok THEN DbUpdate(s, id, updates) ELSE s

\* main() settles without running its finally block
SkipFinally == jpc' = "exit"

\* the finally block of main() starts
EnterFinally == jpc' = "cleanOut"

\* await updateVideoMetadata(videoId, { status: 'COMPLETED', thumbnailUrl,
\* masterPlaylistUrl, completedAt })
J_StatusDb ==
    /\ jpc = "statusDb"
    /\ \E ok \in BOOLEAN, t \in 1..MaxClock :
          LET updates == [ status            |-> <<"COMPLETED">>,
                           thumbnailUrl      |-> ThumbnailUrl(outputPrefix),
                           masterPlaylistUrl |-> MasterPlaylistUrl(outputPrefix),
                           completedAt       |-> IsoTime(t) ]
          IN  /\ Outcome(ok)
              /\ ReadClock(t)
              /\ store' = UpdateVideoMetadata(store, JobVideoId(env), updates, ok)
              /\ dbCalls' = Append(dbCalls, [videoId |-> JobVideoId(env), updates |-> updates, ok |-> ok])
    /\ jpc' = "manifest"
    /\ UNCHANGED <<runs, env, outputPrefix, task, joinErr, error, outExists, outDirs,
                   outFiles, srcExists, upState, upErr, uploaded, resultFile, exitCode, rmCalls>>
    /\ JobFrame

\* await createAndUploadManifest(outputPrefix, 'COMPLETED', null, thumbnailUrl,
\* masterPlaylistUrl), the last statement of the try block
J_Manifest ==
    /\ jpc = "manifest"
    /\ \E ok \in BOOLEAN, t \in 1..MaxClock :
          /\ Outcome(ok)
          /\ ReadClock(t)
          /\ IF ok
             THEN /\ resultFile' = Append(resultFile,
                        ManifestContent(outputPrefix, <<"COMPLETED">>, Absent,
                                        ThumbnailUrl(outputPrefix), MasterPlaylistUrl(outputPrefix), t))
                  /\ EnterFinally
                  /\ UNCHANGED error
             ELSE /\ Throw(ErrManifest)
                  /\ UNCHANGED resultFile
    /\ UNCHANGED <<store, runs, env, outputPrefix, task, joinErr, outExists, outDirs,
                   outFiles, srcExists, upState, upErr, uploaded, exitCode, dbCalls, rmCalls>>
    /\ JobFrame

\* catch: await updateVideoMetadata(videoId, { status: 'FAILED', errorMessage, completedAt })
J_CatchDb ==
    /\ jpc = "catchDb"
    /\ \E ok \in BOOLEAN, t \in 1..MaxClock :
          LET updates == [ status       |-> <<"FAILED">>,
                           errorMessage |-> error,
                           completedAt  |-> IsoTime(t) ]
          IN  /\ Outcome(ok)
              /\ ReadClock(t)
              /\ store' = UpdateVideoMetadata(store, JobVideoId(env), updates, ok)
              /\ dbCalls' = Append(dbCalls, [videoId |-> JobVideoId(env), updates |-> updates, ok |-> ok])
    /\ jpc' = "catchManifest"
    /\ UNCHANGED <<runs, env, outputPrefix, task, joinErr, error, outExists, outDirs,
                   outFiles, srcExists, upState, upErr, uploaded, resultFile, exitCode, rmCalls>>
    /\ JobFrame

\* catch: await createAndUploadManifest(outputPrefix, 'FAILED', error.message); throw error.
\* When the upload throws, that error leaves the catch block instead.
J_CatchManifest ==
    /\ jpc = "catchManifest"
    /\ \E ok \in BOOLEAN, t \in 1..MaxClock :
          /\ Outcome(ok)
          /\ ReadClock(t)
          /\ IF ok
             THEN /\ resultFile' = Append(resultFile,
                        ManifestContent(outputPrefix, <<"FAILED">>, error, Absent, Absent, t))
                  /\ UNCHANGED error
             ELSE /\ error' = ErrManifest
                  /\ UNCHANGED resultFile
    /\ EnterFinally
    /\ UNCHANGED <<store, runs, env, outputPrefix, task, joinErr, outExists, outDirs,
                   outFiles, srcExists, upState, upErr, uploaded, exitCode, dbCalls, rmCalls>>
    /\ JobFrame

\* a removal of the output tree whose failure leaves the finally block as an error
J_CleanOutRethrows ==
    /\ jpc = "cleanOut"
    /\ rmCalls' = rmCalls \cup {"output"}
    /\ \E ok \in BOOLEAN :
          /\ Outcome(ok)
          /\ IF ok THEN /\ outExists' = FALSE
                        /\ outDirs' = {}
                        /\ outFiles' = {}
                        /\ jpc' = "cleanSrc"
                        /\ UNCHANGED error
             ELSE /\ UNCHANGED <<outExists, outDirs, outFiles>>
                  /\ jpc' = "exit"
                  /\ error' = <<"rm failed">>
    /\ UNCHANGED <<now, store, runs, env, outputPrefix, task, joinErr, srcExists,
                   upState, upErr, uploaded, resultFile, exitCode, dbCalls>>
    /\ JobFrame

\* finally: await fs.rm(LOCAL_OUTPUT_DIR, { recursive: true, force: true }) in its own
\* try/catch
J_CleanOut ==
    /\ jpc = "cleanOut"
    /\ rmCalls' = rmCalls \cup {"output"}
    /\ \E ok \in BOOLEAN :
          /\ Outcome(ok)
          /\ IF ok THEN /\ outExists' = FALSE
                        /\ outDirs' = {}
                        /\ outFiles' = {}
             ELSE UNCHANGED <<outExists, outDirs, outFiles>>
    /\ jpc' = "cleanSrc"
    /\ UNCHANGED <<now, store, runs, env, outputPrefix, task, joinErr, error, srcExists,
                   upState, upErr, uploaded, resultFile, exitCode, dbCalls>>
    /\ JobFrame

\* finally: await fs.rm(LOCAL_SOURCE_VIDEO, { force: true }) in its own try/catch
J_CleanSrc ==
    /\ jpc = "cleanSrc"
    /\ rmCalls' = rmCalls \cup {"source"}
    /\ \E ok \in BOOLEAN :
          /\ Outcome(ok)
          /\ IF ok THEN srcExists' = FALSE ELSE UNCHANGED srcExists
    /\ jpc' = "exit"
    /\ UNCHANGED <<now, store, runs, env, outputPrefix, task, joinErr, error, outExists,
                   outDirs, outFiles, upState, upErr, uploaded, resultFile, exitCode, dbCalls>>
    /\ JobFrame

\* main() settles: main().catch(() => process.exit(1)), or the process ends by itself
J_Exit ==
    /\ jpc = "exit"
    /\ exitCode' = IF error = <<>> THEN 0 ELSE 1
    /\ jpc' = "exited"
    /\ UNCHANGED <<now, store, runs, env, outputPrefix, task, joinErr, error, outExists,
                   outDirs, outFiles, srcExists, upState, upErr, uploaded, resultFile,
                   dbCalls, rmCalls>>
    /\ UNCHANGED budget
    /\ JobFrame

\* the launcher runs the Job again for the same VIDEO_KEY (a duplicate dispatch), at
\* a later clock value
Relaunch ==
    /\ jpc = "exited"
    /\ runs < MaxRuns
    /\ runs' = runs + 1
    /\ \E t \in 1..MaxClock :
          /\ ReadClock(t)
          /\ OutputPrefixOf(env, t) # outputPrefix
          /\ JobStart(env, t)
    /\ UNCHANGED store
    /\ UNCHANGED budget
    /\ JobFrame

JobNext ==
    \/ J_Mkdir \/ J_Download \/ J_StartEncode
    \/ \E r \in ResNames : T_Mkdir(r)
    \/ \E r \in ResNames : T_Ffmpeg(r)
    \/ S_Probe \/ S_Tile \/ S_Vtt
    \/ J_AwaitEncode \/ J_Master \/ J_Upload
    \/ \E f \in DOMAIN upState : U_Put(f)
    \/ J_AwaitUpload \/ J_StatusDb \/ J_Manifest
    \/ J_CatchDb \/ J_CatchManifest
    \/ J_CleanOut \/ J_CleanSrc \/ J_Exit

\* ------------------------------------------------------------------------
\* The queue (SQS) as the Dispatchers see it
\* ------------------------------------------------------------------------
\* RedrivePolicy.maxReceiveCount of VideoUploadQueue
maxReceiveCount == 5

\* a record of an S3 notification: bucket name and URL-encoded object key
Rec(key) == [bucket |-> SOURCE_BUCKET, key |-> key]

\* message bodies: kind "empty" (no Body), "badjson" (JSON.parse throws), "test"
\* ({"Event":"s3:TestEvent"}), "norecords" (JSON without a Records list), "records"
Body(kind, records) == [kind |-> kind, records |-> records]

\* a queue that would not hand out again a message a Job has been launched for
VisibilityExpireUnlaunched(m) ==
    /\ m \in DOMAIN queue
    /\ queue[m].state = "inflight"
    /\ \A k \in DOMAIN launches : launches[k].msg # m
    /\ queue' = [queue EXCEPT ![m].state = "visible"]

\* a queue whose visibility timer also brings back a message that was deleted
VisibilityExpireAny(m) ==
    /\ m \in DOMAIN queue
    /\ queue[m].state \in {"inflight", "deleted"}
    /\ queue' = [queue EXCEPT ![m].state = "visible"]

\* the message becomes visible again when its visibility timeout expires
VisibilityExpire(m) ==
    /\ m \in DOMAIN queue
    /\ queue[m].state = "inflight"
    /\ queue' = [queue EXCEPT ![m].state = "visible"]

\* a message received maxReceiveCount times goes to the dead-letter queue
Redrive(m) ==
    /\ m \in DOMAIN queue
    /\ queue[m].state = "visible"
    /\ queue[m].receives >= maxReceiveCount
    /\ queue' = [queue EXCEPT ![m].state = "dlq"]

\* a queue without a redrive policy: a visible message is handed out however often
\* it has been received
ReceivableAlways(m) ==
    /\ m \in DOMAIN queue
    /\ queue[m].state = "visible"

\* ReceiveMessage hands out m
Receivable(m) ==
    /\ m \in DOMAIN queue
    /\ queue[m].state = "visible"
    /\ queue[m].receives < maxReceiveCount

Received(q, m) == [q EXCEPT ![m].state = "inflight", ![m].receives = @ + 1]

\* DeleteMessage removes m from the queue; a message already moved to the
\* dead-letter queue is out of its reach
Deleted(q, m) == IF q[m].state = "dlq" THEN q ELSE [q EXCEPT ![m].state = "deleted"]

\* ------------------------------------------------------------------------
\* The polling Dispatcher: init() of the poller, without and with overlay lookup
\* ------------------------------------------------------------------------
\* the watermark table: owner "a" has an overlay, nobody else has
WatermarkTable(username) ==
    IF username = <<"a">> THEN <<"w", ".", "p", "n", "g">> ELSE <<>>

\* the Records of the message being processed
CurRecords == queue[cur].body.records

\* videoKey of the record being processed
CurKey == DecodeKey(CurRecords[recIdx].key)

\* the checks made on a decoded key before anything else is done with it: the
\* variant without overlay runs isValidVideoPath and the separator check, the
\* overlay variant the separator check alone
\* (the key and its basename are bound by quantifiers so that each is computed once)
Accepted(v, key) ==
    \E k \in {key} : \E filename \in {Basename(k)} :
        IF v = "plain"
        THEN isValidVideoPath(k) /\ Includes(filename, FILENAME_SEPARATOR)
        ELSE Includes(filename, FILENAME_SEPARATOR)

\* const [username] = filename.split(FILENAME_SEPARATOR)
UsernameOf(key) ==
    CHOOSE username \in {Split(filename, FILENAME_SEPARATOR)[1] : filename \in {Basename(key)}} : TRUE

\* containerOverrides[0].environment of the RunTaskCommand
DispatchEnv(v, bucket, key, wm) ==
    [SOURCE_BUCKET |-> bucket, DESTINATION_BUCKET |-> DESTINATION_BUCKET,
     VIDEO_KEY |-> key, OUTPUT_PREFIX |-> <<>>,
     WATERMARK_KEY |-> IF v = "overlay" THEN wm ELSE <<>>]

\* a loop whose process ends when anything inside the try block throws
OnThrowExit == "exited"

\* where the loop goes when anything inside the try block throws: the catch block
\* logs and waits 5 s
OnThrow == "backoff"

\* a loop that acknowledges the message when the RunTask call throws
LaunchThrowsAck == "delete"

\* where the loop goes when the RunTask call throws: nothing between the call and the
\* catch block handles it
LaunchThrows == "backoff"

\* where the loop goes once the RunTask call has returned
AfterLaunch == "delete"

\* a loop that goes on to the launch with a record it has rejected
AfterRejectLaunch == "launch"

\* where the loop goes after a record has been rejected
AfterReject == "delete"

PollFrame == UNCHANGED <<now, store, jobVars, variant, metadata, apiVars>>

\* const { Messages } = await sqsClient.send(receiveCommand), MaxNumberOfMessages: 1
P_Receive ==
    /\ ppc = "receive"
    /\ \E ok \in BOOLEAN :
          /\ Outcome(ok)
          /\ IF ok
             THEN \E m \in DOMAIN queue :
                     /\ Receivable(m)
                     /\ queue' = Received(queue, m)
                     /\ cur' = m
                     /\ ppc' = "message"
             ELSE /\ ppc' = OnThrow
                  /\ UNCHANGED <<queue, cur>>
    /\ recIdx' = 0
    /\ wmKey' = <<>>
    /\ dDecided' = {}
    /\ dLaunched' = {}
    /\ dFailed' = {}
    /\ dAcks' = <<>>
    /\ UNCHANGED launches
    /\ PollFrame

\* the checks on the message before its records are looked at
P_Message ==
    /\ ppc = "message"
    /\ LET kind == queue[cur].body.kind
       IN  /\ ppc' = CASE kind = "empty"     -> "delete"
                       [] kind = "badjson"   -> OnThrow
                       [] kind = "test"      -> "delete"
                       [] kind = "norecords" -> OnThrow
                       [] kind = "records"   -> IF CurRecords = <<>> THEN "receive" ELSE "record"
           /\ recIdx' = IF kind = "records" /\ CurRecords # <<>> THEN 1 ELSE 0
    /\ UNCHANGED <<budget, queue, launches, cur, wmKey, dDecided, dLaunched, dFailed, dAcks>>
    /\ PollFrame

\* one record: decode the key, check it, and either reject it or go on to launch
P_Record ==
    /\ ppc = "record"
    /\ IF ~DecodeOk(PlusToSpace(CurRecords[recIdx].key))
       THEN /\ ppc' = OnThrow
            /\ UNCHANGED dDecided
       ELSE IF ~Accepted(variant, CurKey)
            THEN /\ ppc' = AfterReject
                 /\ dDecided' = dDecided \cup {recIdx}
            ELSE /\ ppc' = IF variant = "overlay" THEN "watermark" ELSE "launch"
                 /\ UNCHANGED dDecided
    /\ UNCHANGED <<budget, queue, launches, cur, recIdx, wmKey, dLaunched, dFailed, dAcks>>
    /\ PollFrame

\* const watermarkKey = await getWatermarkKeyForUser(username): a failed lookup is
\* caught there and returns null, like a missing entry
P_Watermark ==
    /\ ppc = "watermark"
    /\ \E ok \in BOOLEAN :
          /\ Outcome(ok)
          /\ LET found == IF ok THEN WatermarkTable(UsernameOf(CurKey)) ELSE <<>>
             IN  /\ wmKey' = found
                 /\ IF found = <<>>
                    THEN /\ ppc' = AfterReject
                         /\ dDecided' = dDecided \cup {recIdx}
                    ELSE /\ ppc' = "launch"
                         /\ UNCHANGED dDecided
    /\ UNCHANGED <<queue, launches, cur, recIdx, dLaunched, dFailed, dAcks>>
    /\ PollFrame

\* await ecsClient.send(runTaskCommand)
P_Launch ==
    /\ ppc = "launch"
    /\ \E ok \in BOOLEAN :
          /\ Outcome(ok)
          /\ IF ok
             THEN /\ launches' = Append(launches,
                        [msg |-> cur, rec |-> recIdx, delivery |-> queue[cur].receives,
                         videoId |-> <<>>,
                         env |-> DispatchEnv(variant, CurRecords[recIdx].bucket, CurKey, wmKey)])
                  /\ dLaunched' = dLaunched \cup {recIdx}
                  /\ dDecided' = dDecided \cup {recIdx}
                  /\ ppc' = AfterLaunch
                  /\ UNCHANGED dFailed
             ELSE /\ dFailed' = dFailed \cup {recIdx}
                  /\ ppc' = LaunchThrows
                  /\ UNCHANGED <<launches, dLaunched, dDecided>>
    /\ UNCHANGED <<queue, cur, recIdx, wmKey, dAcks>>
    /\ PollFrame

\* await deleteMessage(receiptHandle), then `continue`: the next record of the
\* message, or the next receive when there is none
P_Delete ==
    /\ ppc = "delete"
    /\ \E ok \in BOOLEAN :
          /\ Outcome(ok)
          /\ dAcks' = Append(dAcks, [decided |-> dDecided, ok |-> ok])
          /\ IF ok
             THEN /\ queue' = Deleted(queue, cur)
                  /\ IF recIdx >= 1 /\ recIdx < Len(CurRecords)
                     THEN /\ recIdx' = recIdx + 1
                          /\ ppc' = "record"
                     ELSE /\ ppc' = "receive"
                          /\ UNCHANGED recIdx
             ELSE /\ ppc' = OnThrow
                  /\ UNCHANGED <<queue, recIdx>>
    /\ wmKey' = <<>>
    /\ UNCHANGED <<launches, cur, dDecided, dLaunched, dFailed>>
    /\ PollFrame

\* await new Promise(resolve => setTimeout(resolve, 5000)), then the next iteration
P_Backoff ==
    /\ ppc = "backoff"
    /\ ppc' = "receive"
    /\ UNCHANGED <<budget, queue, launches, cur, recIdx, wmKey, dDecided, dLaunched, dFailed, dAcks>>
    /\ PollFrame

\* the queue's own steps
Q_Expire ==
    /\ \E m \in DOMAIN queue : VisibilityExpire(m)
    /\ UNCHANGED <<now, budget, store, jobVars, launches, pollVars, apiVars>>

Q_Redrive ==
    /\ \E m \in DOMAIN queue : Redrive(m)
    /\ UNCHANGED <<now, budget, store, jobVars, launches, pollVars, apiVars>>

PollerNext ==
    \/ P_Receive \/ P_Message \/ P_Record \/ P_Watermark \/ P_Launch \/ P_Delete
    \/ P_Backoff \/ Q_Expire \/ Q_Redrive

\* ------------------------------------------------------------------------
\* Initial states
\* ------------------------------------------------------------------------
KeyInDir == <<"v", "/", "a", "#", "#", "#", "t", ".", "m", "p", "4">>

\* environments the polling Dispatcher binds: no OUTPUT_PREFIX
PollerEnv(key) == DispatchEnv("plain", SOURCE_BUCKET, key, <<>>)

\* no Job process
JobIdle ==
    /\ runs = 0
    /\ env = PollerEnv(<<>>)
    /\ outputPrefix = <<>>
    /\ jpc = "idle"
    /\ task = [x \in Tasks |-> "idle"]
    /\ joinErr = <<>>
    /\ error = <<>>
    /\ outExists = FALSE
    /\ outDirs = {}
    /\ outFiles = {}
    /\ srcExists = FALSE
    /\ upState = <<>>
    /\ upErr = <<>>
    /\ uploaded = {}
    /\ resultFile = <<>>
    /\ exitCode = -1
    /\ dbCalls = <<>>
    /\ rmCalls = {}

\* a Job process launched with environment e at clock value t, about to run main()
JobFresh(e, t) ==
    /\ runs = 1
    /\ env = e
    /\ outputPrefix = OutputPrefixOf(e, t)
    /\ jpc = "mkdir"
    /\ task = [x \in Tasks |-> "idle"]
    /\ joinErr = <<>>
    /\ error = <<>>
    /\ outExists = FALSE
    /\ outDirs = {}
    /\ outFiles = {}
    /\ srcExists = FALSE
    /\ upState = <<>>
    /\ upErr = <<>>
    /\ uploaded = {}
    /\ resultFile = <<>>
    /\ exitCode = -1
    /\ dbCalls = <<>>
    /\ rmCalls = {}

\* no VideoMetadata item has been built
NoMetadata == [videoId |-> <<>>, item |-> EmptyItem]

\* the polling Dispatcher has not started
PollerIdle ==
    /\ variant = "plain"
    /\ ppc = "off"
    /\ cur = 0
    /\ recIdx = 0
    /\ wmKey = <<>>
    /\ dDecided = {}
    /\ dLaunched = {}
    /\ dFailed = {}
    /\ dAcks = <<>>
    /\ metadata = NoMetadata

\* no key has been put to the validator
NoCase == [key |-> <<>>, result |-> "none", owner |-> <<>>, title |-> <<>>]

\* createMasterPlaylist has not been called
NoPlaylist == [resolutions |-> <<>>, next |-> 0, content |-> <<>>, written |-> FALSE]

\* generateSpriteSheet has not reached its timeline loop
NoVtt == [duration |-> 0, i |-> 0, entries |-> <<>>, written |-> FALSE]

\* the Lambda handler is not running
NoBatch == [hpc |-> "idle", members |-> <<>>]

\* no upload URL has been asked for, no container started
ApiIdle ==
    /\ running = 0
    /\ uploadResp = [statusCode |-> 0, videoId |-> <<>>, key |-> <<>>]
    /\ vcase = NoCase
    /\ playlist = NoPlaylist
    /\ vtt = NoVtt
    /\ batch = NoBatch

\* ------------------------------------------------------------------------
\* SpecJob: one Job process, from process start to exit, launched by the polling
\* Dispatcher; every combination of failures
\* ------------------------------------------------------------------------
InitJob ==
    /\ now = 1
    /\ budget = -1
    /\ store = <<>>
    /\ JobFresh(PollerEnv(KeyInDir), 1)
    /\ queue = <<>>
    /\ launches = <<>>
    /\ PollerIdle
    /\ ApiIdle

NextJob == JobNext

SpecJob == InitJob /\ [][NextJob]_vars

\* ------------------------------------------------------------------------
\* SpecRerun: the Job is run again for the same key after it has exited
\* ------------------------------------------------------------------------
InitRerun ==
    /\ now = 1
    /\ budget = MaxFaults
    /\ store = <<>>
    /\ JobFresh(PollerEnv(KeyInDir), 1)
    /\ queue = <<>>
    /\ launches = <<>>
    /\ PollerIdle
    /\ ApiIdle

NextRerun == JobNext \/ Relaunch

SpecRerun == InitRerun /\ [][NextRerun]_vars

\* ------------------------------------------------------------------------
\* SpecPoller: the polling Dispatcher on a queue of notifications
\* ------------------------------------------------------------------------
\* number of records in a message
MaxRecords == 2

\* URL-encoded object keys as S3 sends them
EncValid    == <<"a", "%", "2", "3", "%", "2", "3", "%", "2", "3", "t", ".", "m", "p", "4">>
EncOwnerB   == <<"b", "%", "2", "3", "%", "2", "3", "%", "2", "3", "t", ".", "m", "p", "4">>
EncNoSep    == <<"a", "-", "t", ".", "m", "p", "4">>
EncSpace    == <<"a", "+", "b", "%", "2", "3", "%", "2", "3", "%", "2", "3", "t", ".", "m", "p", "4">>
EncCtrl     == <<"%", "0", "A", "a", "%", "2", "3", "%", "2", "3", "%", "2", "3", "t">>
EncUp       == <<".", ".", "/", "a", "%", "2", "3", "%", "2", "3", "%", "2", "3", "t">>
EncDirSep   == <<"x", "%", "2", "3", "%", "2", "3", "%", "2", "3", "y", "/", "a", "-", "t">>
EncBadEsc   == <<"a", "%", "z", "z">>

SampleKeys == {EncValid, EncOwnerB, EncNoSep, EncSpace, EncCtrl, EncUp, EncDirSep, EncBadEsc}

RECURSIVE SeqsUpTo(_, _)
\* the sequences over S of length at most n
SeqsUpTo(S, n) ==
    IF n = 0 THEN {<<>>}
    ELSE LET shorter == SeqsUpTo(S, n - 1)
         IN  shorter \cup {Append(q, x) : q \in shorter, x \in S}

SampleBodies ==
    {Body(k, <<>>) : k \in {"empty", "badjson", "test", "norecords"}}
        \cup {Body("records", [i \in DOMAIN ks |-> Rec(ks[i])]) : ks \in SeqsUpTo(SampleKeys, MaxRecords)}

\* a queue holding one notification that has not been received yet
SampleQueues == {<<[body |-> b, state |-> "visible", receives |-> 0]>> : b \in SampleBodies}

\* the keys of the longer explorations: a valid key of an owner with an overlay, one of
\* an owner without, a key without separator and a key whose decoding throws
FewKeys == {EncValid, EncOwnerB, EncNoSep, EncBadEsc}

FewBodies ==
    {Body(k, <<>>) : k \in {"empty", "badjson", "test", "norecords"}}
        \cup {Body("records", [i \in DOMAIN ks |-> Rec(ks[i])]) : ks \in SeqsUpTo(FewKeys, MaxRecords)}

FewQueues == {<<[body |-> b, state |-> "visible", receives |-> 0]>> : b \in FewBodies}

InitPoller ==
    /\ now = 1
    /\ budget = -1
    /\ store = <<>>
    /\ JobIdle
    /\ queue \in SampleQueues
    /\ launches = <<>>
    /\ variant \in {"plain", "overlay"}
    /\ ppc = "receive"
    /\ cur = 0
    /\ recIdx = 0
    /\ wmKey = <<>>
    /\ dDecided = {}
    /\ dLaunched = {}
    /\ dFailed = {}
    /\ dAcks = <<>>
    /\ metadata = NoMetadata
    /\ ApiIdle

SpecPoller == InitPoller /\ [][PollerNext]_vars

\* the steps of the loop of init()
PollerSteps ==
    P_Receive \/ P_Message \/ P_Record \/ P_Watermark \/ P_Launch \/ P_Delete \/ P_Backoff

\* the polling Dispatcher as a running process: the loop takes its next step and the
\* queue's timers fire
PollerFairness ==
    /\ WF_vars(PollerSteps)
    /\ WF_vars(Q_Expire)
    /\ WF_vars(Q_Redrive)

\* SpecPollerFair: the running polling Dispatcher with any number of failures
InitPollerFair ==
    /\ now = 1
    /\ budget = -1
    /\ store = <<>>
    /\ JobIdle
    /\ queue \in FewQueues
    /\ launches = <<>>
    /\ variant \in {"plain", "overlay"}
    /\ ppc = "receive"
    /\ cur = 0
    /\ recIdx = 0
    /\ wmKey = <<>>
    /\ dDecided = {}
    /\ dLaunched = {}
    /\ dFailed = {}
    /\ dAcks = <<>>
    /\ metadata = NoMetadata
    /\ ApiIdle

SpecPollerFair == InitPollerFair /\ [][PollerNext]_vars /\ PollerFairness

\* SpecPollerLive: the running polling Dispatcher with at most MaxFaults failures
InitPollerLive ==
    /\ now = 1
    /\ budget = MaxFaults
    /\ store = <<>>
    /\ JobIdle
    /\ queue \in FewQueues
    /\ launches = <<>>
    /\ variant \in {"plain", "overlay"}
    /\ ppc = "receive"
    /\ cur = 0
    /\ recIdx = 0
    /\ wmKey = <<>>
    /\ dDecided = {}
    /\ dLaunched = {}
    /\ dFailed = {}
    /\ dAcks = <<>>
    /\ metadata = NoMetadata
    /\ ApiIdle

\* with so few failures no message is received maxReceiveCount times
NextPollerLive == PollerSteps \/ Q_Expire

SpecPollerLive ==
    /\ InitPollerLive
    /\ [][NextPollerLive]_vars
    /\ WF_vars(PollerSteps)
    /\ WF_vars(Q_Expire)

\* ------------------------------------------------------------------------
\* Upload-URL issuance (getUploadUrl) and the upload
\* ------------------------------------------------------------------------
UpperCase == <<"A","B","C","D","E","F","G","H","I","J","K","L","M","N","O","P","Q","R","S","T",
               "U","V","W","X","Y","Z">>
LowerCase == <<"a","b","c","d","e","f","g","h","i","j","k","l","m","n","o","p","q","r","s","t",
               "u","v","w","x","y","z">>

\* c.toLowerCase()
ToLowerCase(c) ==
    IF \E i \in 1..26 : UpperCase[i] = c
    THEN LowerCase[CHOOSE i \in 1..26 : UpperCase[i] = c]
    ELSE c

\* [a-z0-9_-]
TitleChars ==
    {LowerCase[i] : i \in 1..26} \cup {"0","1","2","3","4","5","6","7","8","9","_","-"}

\* .substring(0, 50)
TitleMax == 50

\* title.toLowerCase().replace(/[^a-z0-9_-]/g, '_').substring(0, 50)
SanitizedTitle(title) ==
    LET rep == [i \in 1..Len(title) |->
                   IF ToLowerCase(title[i]) \in TitleChars THEN ToLowerCase(title[i]) ELSE "_"]
    IN  SubSeq(rep, 1, IF Len(rep) < TitleMax THEN Len(rep) ELSE TitleMax)

\* `${username}${FILENAME_SEPARATOR}${sanitizedTitle}-${timestamp}`
UploadVideoId(username, title, t) ==
    username \o FILENAME_SEPARATOR \o SanitizedTitle(title) \o <<"-">> \o Digits(t)

\* a MIME type is the text before and after its "/"
getFileExtensionFromMimeType(mimeType) ==
    CASE mimeType = <<"video/", "mp4">>        -> <<".", "m", "p", "4">>
      [] mimeType = <<"video/", "quicktime">>  -> <<".", "m", "o", "v">>
      [] mimeType = <<"video/", "x-msvideo">>  -> <<".", "a", "v", "i">>
      [] mimeType = <<"video/", "webm">>       -> <<".", "w", "e", "b", "m">>
      [] mimeType = <<"video/", "x-matroska">> -> <<".", "m", "k", "v">>
      [] OTHER                                 -> <<".", "m", "p", "4">>

\* request bodies: an absent field is the empty text
SampleUsernames == {<<>>, <<"a">>}
SampleTitles == {<<>>, <<"T", " ", "r">>}
SampleFileTypes == {<<>>, <<"video/", "webm">>, <<"image/", "png">>}

Response(code, videoId, key) == [statusCode |-> code, videoId |-> videoId, key |-> key]

\* one request to getUploadUrl
G_GetUploadUrl ==
    /\ uploadResp.statusCode = 0
    /\ \E username \in SampleUsernames, title \in SampleTitles, fileType \in SampleFileTypes :
          IF title = <<>> \/ username = <<>> \/ fileType = <<>>
          THEN /\ uploadResp' = Response(400, <<>>, <<>>)
               /\ UNCHANGED <<now, budget, store>>
          ELSE IF fileType[1] # "video/"
          THEN /\ uploadResp' = Response(400, <<>>, <<>>)
               /\ UNCHANGED <<now, budget, store>>
          ELSE \E t \in 1..MaxClock, t2 \in 1..MaxClock, outcome \in {"ok", "presign", "store"} :
                  LET videoId == UploadVideoId(username, title, t)
                      s3Key == videoId \o getFileExtensionFromMimeType(fileType)
                      initialMetadata == [ title     |-> title,
                                           username  |-> username,
                                           status    |-> <<"PENDING">>,
                                           sourceKey |-> s3Key,
                                           createdAt |-> IsoTime(t2) ]
                  IN  /\ t \in now..MaxClock
                      /\ t2 \in t..MaxClock
                      /\ now' = IF outcome = "presign" THEN t ELSE t2
                      /\ Outcome(outcome = "ok")
                      /\ IF outcome = "ok"
                         THEN /\ store' = DbPut(store, videoId, initialMetadata)
                              /\ uploadResp' = Response(200, videoId, s3Key)
                         ELSE /\ uploadResp' = Response(500, <<>>, <<>>)
                              /\ UNCHANGED store
    /\ UNCHANGED <<jobVars, sqsVars, pollVars, running, vcase, playlist, vtt, batch>>

RECURSIVE EncodeKey(_)
\* the object key as the S3 notification carries it: URL-encoded, a space as "+"
EncodeKey(key) ==
    IF key = <<>> THEN <<>>
    ELSE (CASE key[1] = "#" -> <<"%", "2", "3">>
            [] key[1] = " " -> <<"+">>
            [] OTHER        -> <<key[1]>>) \o EncodeKey(Tail(key))

\* the client uploads to the presigned URL; the bucket notifies the queue
C_PutObject ==
    /\ uploadResp.statusCode = 200
    /\ queue = <<>>
    /\ queue' = <<[body |-> Body("records", <<Rec(EncodeKey(uploadResp.key))>>),
                   state |-> "visible", receives |-> 0]>>
    /\ UNCHANGED <<now, budget, store, jobVars, launches, pollVars, apiVars>>

\* ------------------------------------------------------------------------
\* The Lambda Dispatcher (handler / processMessage of lambda.ts)
\* ------------------------------------------------------------------------
\* environment of the RunTaskCommand of startTranscodingTask
LambdaEnv(bucket, key, prefix) ==
    [SOURCE_BUCKET |-> bucket, DESTINATION_BUCKET |-> DESTINATION_BUCKET,
     VIDEO_KEY |-> key, OUTPUT_PREFIX |-> prefix, WATERMARK_KEY |-> <<>>]

\* const [username, videoNameWithExt] = filename.split(FILENAME_SEPARATOR);
\* videoId = `${username}###${path.parse(videoNameWithExt).name}-${timestamp}`
LambdaVideoId(key, t) ==
    LET parts == Split(Basename(key), FILENAME_SEPARATOR)
    IN  parts[1] \o FILENAME_SEPARATOR \o ParseName(parts[2]) \o <<"-">> \o Digits(t)

\* const metadata: VideoMetadata = {...}
LambdaMetadata(bucket, key, t, t2) ==
    LET parts == Split(Basename(key), FILENAME_SEPARATOR)
        videoId == LambdaVideoId(key, t)
    IN  [ videoId |-> videoId,
          item |-> [ a \in Attrs |->
                        CASE a = "username"     -> parts[1]
                          [] a = "title"        -> ParseName(parts[2])
                          [] a = "sourceKey"    -> key
                          [] a = "status"       -> <<"PROCESSING">>
                          [] a = "createdAt"    -> IsoTime(t2)
                          [] a = "outputPrefix" -> <<"processed/">> \o videoId \o <<"/">>
                          [] OTHER              -> Absent ] ]

\* after a record: the next record of the S3 event, or processMessage returns
NextRecord(i, n) == IF i < n THEN "s3record" ELSE "resolved"

LambdaFrame == UNCHANGED <<jobVars, variant, wmKey, apiVars>>

\* the event source mapping invokes the handler with the message
L_Invoke ==
    /\ ppc = "invoke"
    /\ \E m \in DOMAIN queue :
          /\ Receivable(m)
          /\ queue' = Received(queue, m)
          /\ cur' = m
    /\ ppc' = "parse"
    /\ recIdx' = 0
    /\ dDecided' = {}
    /\ dLaunched' = {}
    /\ dFailed' = {}
    /\ dAcks' = <<>>
    /\ metadata' = NoMetadata
    /\ UNCHANGED <<now, budget, store, launches>>
    /\ LambdaFrame

\* JSON.parse(record.body), the test-event check and the Records check
L_Parse ==
    /\ ppc = "parse"
    /\ LET kind == queue[cur].body.kind
       IN  /\ ppc' = CASE kind \in {"empty", "badjson"} -> "rejected"
                       [] kind \in {"test", "norecords"} -> "resolved"
                       [] kind = "records" -> IF CurRecords = <<>> THEN "resolved" ELSE "s3record"
           /\ recIdx' = IF kind = "records" /\ CurRecords # <<>> THEN 1 ELSE 0
    /\ UNCHANGED <<now, budget, store, queue, launches, cur, dDecided, dLaunched, dFailed,
                   dAcks, metadata>>
    /\ LambdaFrame

\* one S3 record up to the metadata item: decode, validate, name
L_Record ==
    /\ ppc = "s3record"
    /\ IF ~DecodeOk(PlusToSpace(CurRecords[recIdx].key))
       THEN /\ ppc' = "rejected"
            /\ UNCHANGED <<now, recIdx, dDecided, metadata>>
       ELSE IF ~isValidVideoPath(CurKey) \/ ~Includes(Basename(CurKey), FILENAME_SEPARATOR)
            THEN /\ ppc' = NextRecord(recIdx, Len(CurRecords))
                 /\ recIdx' = IF recIdx < Len(CurRecords) THEN recIdx + 1 ELSE recIdx
                 /\ dDecided' = dDecided \cup {recIdx}
                 /\ UNCHANGED <<now, metadata>>
            ELSE \E t \in 1..MaxClock, t2 \in 1..MaxClock :
                    /\ t \in now..MaxClock
                    /\ t2 \in t..MaxClock
                    /\ now' = t2
                    /\ metadata' = LambdaMetadata(CurRecords[recIdx].bucket, CurKey, t, t2)
                    /\ ppc' = "store"
                    /\ UNCHANGED <<recIdx, dDecided>>
    /\ UNCHANGED <<budget, store, queue, launches, cur, dLaunched, dFailed, dAcks>>
    /\ LambdaFrame

\* await storeVideoMetadata(metadata): one PutCommand, rethrown on error
L_Store ==
    /\ ppc = "store"
    /\ \E ok \in BOOLEAN :
          /\ Outcome(ok)
          /\ IF ok THEN /\ store' = DbPut(store, metadata.videoId, metadata.item)
                        /\ ppc' = "runTask"
             ELSE /\ ppc' = "rejected"
                  /\ UNCHANGED store
    /\ UNCHANGED <<now, queue, launches, cur, recIdx, dDecided, dLaunched, dFailed, dAcks,
                   metadata>>
    /\ LambdaFrame

\* await startTranscodingTask(sourceBucket, videoKey, outputPrefix), rethrown on error
L_RunTask ==
    /\ ppc = "runTask"
    /\ \E ok \in BOOLEAN :
          /\ Outcome(ok)
          /\ IF ok
             THEN /\ launches' = Append(launches,
                        [msg |-> cur, rec |-> recIdx, delivery |-> queue[cur].receives,
                         videoId |-> metadata.videoId,
                         env |-> LambdaEnv(CurRecords[recIdx].bucket, CurKey,
                                           metadata.item.outputPrefix)])
                  /\ dLaunched' = dLaunched \cup {recIdx}
                  /\ dDecided' = dDecided \cup {recIdx}
                  /\ ppc' = NextRecord(recIdx, Len(CurRecords))
                  /\ recIdx' = IF recIdx < Len(CurRecords) THEN recIdx + 1 ELSE recIdx
                  /\ UNCHANGED dFailed
             ELSE /\ dFailed' = dFailed \cup {recIdx}
                  /\ ppc' = "rejected"
                  /\ UNCHANGED <<launches, dLaunched, dDecided, recIdx>>
    /\ UNCHANGED <<now, store, queue, cur, dAcks, metadata>>
    /\ LambdaFrame

\* the handler resolves: the event source mapping deletes the message
L_Resolved ==
    /\ ppc = "resolved"
    /\ queue' = Deleted(queue, cur)
    /\ dAcks' = Append(dAcks, [decided |-> dDecided, ok |-> TRUE])
    /\ ppc' = "invoke"
    /\ UNCHANGED <<now, budget, store, launches, cur, recIdx, dDecided, dLaunched, dFailed,
                   metadata>>
    /\ LambdaFrame

\* the handler rethrows: the message stays until its visibility timeout expires
L_Rejected ==
    /\ ppc = "rejected"
    /\ ppc' = "invoke"
    /\ UNCHANGED <<now, budget, store, queue, launches, cur, recIdx, dDecided, dLaunched,
                   dFailed, dAcks, metadata>>
    /\ LambdaFrame

\* the container of the next launch starts: a fresh Job process with the launch's
\* environment
E_StartTask ==
    /\ jpc \in {"idle", "exited"}
    /\ running < Len(launches)
    /\ running' = running + 1
    /\ runs' = runs + 1
    /\ \E t \in 1..MaxClock :
          /\ ReadClock(t)
          /\ JobStart(launches[running + 1].env, t)
    /\ UNCHANGED <<budget, store, sqsVars, pollVars, uploadResp, vcase, playlist, vtt, batch>>

\* ------------------------------------------------------------------------
\* SpecPipeline: upload-URL issuance, upload, Lambda Dispatcher and Job, with at
\* most MaxFaults failing calls
\* ------------------------------------------------------------------------
InitPipeline ==
    /\ now = 1
    /\ budget = MaxFaults
    /\ store = <<>>
    /\ JobIdle
    /\ queue = <<>>
    /\ launches = <<>>
    /\ variant = "lambda"
    /\ ppc = "invoke"
    /\ cur = 0
    /\ recIdx = 0
    /\ wmKey = <<>>
    /\ dDecided = {}
    /\ dLaunched = {}
    /\ dFailed = {}
    /\ dAcks = <<>>
    /\ metadata = NoMetadata
    /\ ApiIdle

NextPipeline ==
    \/ G_GetUploadUrl \/ C_PutObject
    \/ L_Invoke \/ L_Parse \/ L_Record \/ L_Store \/ L_RunTask \/ L_Resolved \/ L_Rejected
    \/ Q_Expire \/ E_StartTask \/ JobNext

SpecPipeline == InitPipeline /\ [][NextPipeline]_vars

\* ------------------------------------------------------------------------
\* SpecLambda: the Lambda Dispatcher on a queue holding one notification, with
\* redelivery and the dead-letter path; every combination of failures
\* ------------------------------------------------------------------------
InitLambda ==
    /\ now = 1
    /\ budget = -1
    /\ store = <<>>
    /\ JobIdle
    /\ queue \in FewQueues
    /\ launches = <<>>
    /\ variant = "lambda"
    /\ ppc = "invoke"
    /\ cur = 0
    /\ recIdx = 0
    /\ wmKey = <<>>
    /\ dDecided = {}
    /\ dLaunched = {}
    /\ dFailed = {}
    /\ dAcks = <<>>
    /\ metadata = NoMetadata
    /\ ApiIdle

NextLambda ==
    \/ L_Invoke \/ L_Parse \/ L_Record \/ L_Store \/ L_RunTask \/ L_Resolved \/ L_Rejected
    \/ Q_Expire \/ Q_Redrive

SpecLambda == InitLambda /\ [][NextLambda]_vars

\* ------------------------------------------------------------------------
\* SpecBatch: the Lambda handler invoked with a batch of messages, one processMessage
\* per message, all started together and joined by Promise.all (lambda.ts 35-53)
\* ------------------------------------------------------------------------
\* most messages in one batch (the event source mapping allows up to batchSize)
MaxBatch == 2

BatchBodies ==
    {Body("badjson", <<>>), Body("records", <<Rec(EncValid)>>), Body("records", <<Rec(EncOwnerB)>>)}

BatchQueues ==
    {[i \in DOMAIN bs |-> [body |-> bs[i], state |-> "visible", receives |-> 0]] :
        bs \in SeqsUpTo(BatchBodies, MaxBatch) \ {<<>>}}

\* the messages of the invocation
Members == DOMAIN batch.members

\* the Records of the message processMessage m works on, and its record in hand
MemberRecords(m) == queue[m].body.records

MemberKey(m) == DecodeKey(MemberRecords(m)[batch.members[m].rec].key)

\* a handler that resolves once every processMessage has settled
BatchAllSettled == \A m \in Members : batch.members[m].pc \in {"resolved", "rejected"}

\* Promise.all(processPromises) is fulfilled: every processMessage returned
BatchFulfilled == \A m \in Members : batch.members[m].pc = "resolved"

\* Promise.all(processPromises) is rejected: some processMessage threw
BatchRejected == \E m \in Members : batch.members[m].pc = "rejected"

BatchFrame == UNCHANGED <<jobVars, pollVars, running, uploadResp, vcase, playlist, vtt>>

\* the event source mapping invokes the handler with up to MaxBatch messages;
\* event.Records.map(record => processMessage(record)) starts them all
B_Invoke ==
    /\ batch.hpc = "idle"
    /\ \E S \in SUBSET DOMAIN queue :
          /\ S # {}
          /\ Cardinality(S) <= MaxBatch
          /\ \A m \in S : Receivable(m)
          /\ queue' = [m \in DOMAIN queue |-> IF m \in S THEN Received(queue, m)[m] ELSE queue[m]]
          /\ batch' = [hpc |-> "await",
                       members |-> [m \in S |-> [pc |-> "parse", rec |-> 0, metadata |-> NoMetadata]]]
    /\ UNCHANGED <<now, budget, store, launches>>
    /\ BatchFrame

\* processMessage: JSON.parse(record.body), the test-event check and the Records check
B_Parse(m) ==
    /\ m \in Members
    /\ batch.members[m].pc = "parse"
    /\ LET kind == queue[m].body.kind
       IN  batch' = [batch EXCEPT
                        !.members[m].pc =
                            CASE kind \in {"empty", "badjson"} -> "rejected"
                              [] kind \in {"test", "norecords"} -> "resolved"
                              [] kind = "records" ->
                                    IF MemberRecords(m) = <<>> THEN "resolved" ELSE "s3record",
                        !.members[m].rec =
                            IF kind = "records" /\ MemberRecords(m) # <<>> THEN 1 ELSE 0]
    /\ UNCHANGED <<now, budget, store, queue, launches>>
    /\ BatchFrame

\* processMessage: one S3 record up to the metadata item
B_Record(m) ==
    /\ m \in Members
    /\ batch.members[m].pc = "s3record"
    /\ LET mb == batch.members[m]
           n == Len(MemberRecords(m))
       IN  IF ~DecodeOk(PlusToSpace(MemberRecords(m)[mb.rec].key))
           THEN /\ batch' = [batch EXCEPT !.members[m].pc = "rejected"]
                /\ UNCHANGED now
           ELSE IF ~isValidVideoPath(MemberKey(m))
                    \/ ~Includes(Basename(MemberKey(m)), FILENAME_SEPARATOR)
                THEN /\ batch' = [batch EXCEPT
                                     !.members[m].pc = NextRecord(mb.rec, n),
                                     !.members[m].rec = IF mb.rec < n THEN mb.rec + 1 ELSE mb.rec]
                     /\ UNCHANGED now
                ELSE \E t \in 1..MaxClock, t2 \in 1..MaxClock :
                        /\ t \in now..MaxClock
                        /\ t2 \in t..MaxClock
                        /\ now' = t2
                        /\ batch' = [batch EXCEPT
                                        !.members[m].pc = "store",
                                        !.members[m].metadata =
                                            LambdaMetadata(MemberRecords(m)[mb.rec].bucket,
                                                           MemberKey(m), t, t2)]
    /\ UNCHANGED <<budget, store, queue, launches>>
    /\ BatchFrame

\* processMessage: await storeVideoMetadata(metadata), rethrown on error
B_Store(m) ==
    /\ m \in Members
    /\ batch.members[m].pc = "store"
    /\ \E ok \in BOOLEAN :
          /\ Outcome(ok)
          /\ IF ok
             THEN /\ store' = DbPut(store, batch.members[m].metadata.videoId,
                                    batch.members[m].metadata.item)
                  /\ batch' = [batch EXCEPT !.members[m].pc = "runTask"]
             ELSE /\ batch' = [batch EXCEPT !.members[m].pc = "rejected"]
                  /\ UNCHANGED store
    /\ UNCHANGED <<now, queue, launches>>
    /\ BatchFrame

\* processMessage: await startTranscodingTask(...), rethrown on error
B_RunTask(m) ==
    /\ m \in Members
    /\ batch.members[m].pc = "runTask"
    /\ LET mb == batch.members[m]
           n == Len(MemberRecords(m))
       IN  \E ok \in BOOLEAN :
              /\ Outcome(ok)
              /\ IF ok
                 THEN /\ launches' = Append(launches,
                            [msg |-> m, rec |-> mb.rec, delivery |-> queue[m].receives,
                             videoId |-> mb.metadata.videoId,
                             env |-> LambdaEnv(MemberRecords(m)[mb.rec].bucket, MemberKey(m),
                                               mb.metadata.item.outputPrefix)])
                      /\ batch' = [batch EXCEPT
                                      !.members[m].pc = NextRecord(mb.rec, n),
                                      !.members[m].rec = IF mb.rec < n THEN mb.rec + 1 ELSE mb.rec]
                 ELSE /\ batch' = [batch EXCEPT !.members[m].pc = "rejected"]
                      /\ UNCHANGED launches
    /\ UNCHANGED <<now, store, queue>>
    /\ BatchFrame

\* await Promise.all(processPromises) is fulfilled and the handler resolves: the event
\* source mapping deletes every message of the batch
B_Resolve ==
    /\ batch.hpc = "await"
    /\ BatchFulfilled
    /\ queue' = [m \in DOMAIN queue |-> IF m \in Members THEN Deleted(queue, m)[m] ELSE queue[m]]
    /\ batch' = [batch EXCEPT !.hpc = "idle"]
    /\ UNCHANGED <<now, budget, store, launches>>
    /\ BatchFrame

\* await Promise.all(processPromises) is rejected and the handler rethrows: no message
\* of the batch is deleted; a processMessage that has not settled may go on or not
B_Reject ==
    /\ batch.hpc = "await"
    /\ BatchRejected
    /\ batch' = [batch EXCEPT !.hpc = "idle"]
    /\ UNCHANGED <<now, budget, store, queue, launches>>
    /\ BatchFrame

InitBatch ==
    /\ now = 1
    /\ budget = MaxFaults
    /\ store = <<>>
    /\ JobIdle
    /\ queue \in BatchQueues
    /\ launches = <<>>
    /\ variant = "lambda"
    /\ ppc = "off"
    /\ cur = 0
    /\ recIdx = 0
    /\ wmKey = <<>>
    /\ dDecided = {}
    /\ dLaunched = {}
    /\ dFailed = {}
    /\ dAcks = <<>>
    /\ metadata = NoMetadata
    /\ ApiIdle

BatchSteps ==
    \/ B_Invoke
    \/ \E m \in 1..MaxBatch : B_Parse(m) \/ B_Record(m) \/ B_Store(m) \/ B_RunTask(m)
    \/ B_Resolve
    \/ B_Reject

NextBatch == BatchSteps \/ Q_Expire \/ Q_Redrive

SpecBatch == InitBatch /\ [][NextBatch]_vars

\* ------------------------------------------------------------------------
\* SpecValidator: the checks a Dispatcher makes on one decoded object key and the
\* owner and title it takes from the key (lambda.ts 110-129, part_000 65-76)
\* ------------------------------------------------------------------------
\* longest key drawn from the alphabet
MaxKeyLen == 5

\* a letter, the path and extension characters, the separator character, a backslash
\* and a line feed
KeyAlphabet == {"a", "/", ".", "#", "\\", "\n"}

KeyNoSeparator == <<"v", "i", "d", "e", "o", "s", "/", "a", "l", "i", "c", "e", "-", "m", "y", "c", "l", "i", "p", ".", "m", "p", "4">>
KeyAlice == <<"v", "i", "d", "e", "o", "s", "/", "a", "l", "i", "c", "e", "#", "#", "#", "m", "y", "c", "l", "i", "p", ".", "m", "p", "4">>
KeyTwoSeparators == <<"a", "#", "#", "#", "b", "#", "#", "#", "c", ".", "m", "p", "4">>
KeyTraversal == <<".", ".", "/", "a", "#", "#", "#", "b">>
KeyTrailingSlash == <<"a", "#", "#", "#", "b", "/">>
KeySeparatorInDir == <<"a", "#", "#", "#", "b", "/", "c", ".", "m", "p", "4">>

ExampleKeys ==
    {KeyNoSeparator, KeyAlice, KeyTwoSeparators, KeyTraversal, KeyTrailingSlash,
     KeySeparatorInDir}

ValidatorKeys == SeqsUpTo(KeyAlphabet, MaxKeyLen) \cup ExampleKeys

ValidatorFrame ==
    UNCHANGED <<now, budget, store, jobVars, sqsVars, pollVars, running, uploadResp, playlist, vtt, batch>>

\* if (!isValidVideoPath(videoKey)) continue
V_Path ==
    /\ vcase.result = "none"
    /\ vcase' = [vcase EXCEPT !.result = IF isValidVideoPath(vcase.key) THEN "path"
                                         ELSE "rejected"]
    /\ ValidatorFrame

\* const filename = path.basename(videoKey);
\* if (!filename.includes(FILENAME_SEPARATOR)) continue
V_Separator ==
    /\ vcase.result = "path"
    /\ vcase' = [vcase EXCEPT !.result =
                    IF Includes(Basename(vcase.key), FILENAME_SEPARATOR) THEN "separator"
                    ELSE "rejected"]
    /\ ValidatorFrame

\* const [username, videoNameWithExt] = filename.split(FILENAME_SEPARATOR)
V_Split ==
    /\ vcase.result = "separator"
    /\ LET parts == Split(Basename(vcase.key), FILENAME_SEPARATOR)
       IN  vcase' = [vcase EXCEPT !.result = "accepted", !.owner = parts[1],
                                  !.title = parts[2]]
    /\ ValidatorFrame

InitValidator ==
    /\ now = 1
    /\ budget = -1
    /\ store = <<>>
    /\ JobIdle
    /\ queue = <<>>
    /\ launches = <<>>
    /\ PollerIdle
    /\ running = 0
    /\ uploadResp = [statusCode |-> 0, videoId |-> <<>>, key |-> <<>>]
    /\ vcase \in {[NoCase EXCEPT !.key = k] : k \in ValidatorKeys}
    /\ playlist = NoPlaylist
    /\ vtt = NoVtt
    /\ batch = NoBatch

NextValidator == V_Path \/ V_Separator \/ V_Split

SpecValidator == InitValidator /\ [][NextValidator]_vars

\* ------------------------------------------------------------------------
\* SpecManifest: createMasterPlaylist(resolutions, outputDir) on a catalog of
\* rendition profiles (job/index.js 258-269)
\* ------------------------------------------------------------------------
\* longest catalog
MaxProfiles == 3

\* a profile outside the reference catalog
Profile240 ==
    [name |-> "240p", width |-> 426, height |-> 240, bv |-> <<"4","0","0","k">>, ba |-> <<"6","4","k">>]

ProfilePool == {RESOLUTIONS[i] : i \in 1..Len(RESOLUTIONS)} \cup {Profile240}

Catalogs == SeqsUpTo(ProfilePool, MaxProfiles) \cup {RESOLUTIONS}

\* s.replace(c, r) with a string pattern: the first occurrence only
ReplaceFirst(s, c, r) ==
    LET i == IndexOf(s, <<c>>)
    IN  IF i = 0 THEN s ELSE SubSeq(s, 1, i - 1) \o r \o SubSeq(s, i + 1, Len(s))

DigitChars == {"0", "1", "2", "3", "4", "5", "6", "7", "8", "9"}

DigitValue(c) == CHOOSE v \in 0..9 : Digits(v) = <<c>>

RECURSIVE ParseDigits(_, _)
\* the number read from the leading digits of s, acc being what was read before
ParseDigits(s, acc) ==
    IF s = <<>> \/ s[1] \notin DigitChars THEN acc
    ELSE ParseDigits(Tail(s), acc * 10 + DigitValue(s[1]))

\* parseInt(s, 10) of a text that starts with a digit
ParseInt(s) == ParseDigits(s, 0)

\* a bandwidth that takes 'k' as 1024
BandwidthKibi(res) ==
    (ParseInt(res.bv) * 1024) + (ParseInt(res.ba) * 1024)

\* parseInt(res.bv.replace('k', '000'), 10) + parseInt(res.ba.replace('k', '000'), 10)
Bandwidth(res) ==
    ParseInt(ReplaceFirst(res.bv, "k", <<"0", "0", "0">>))
        + ParseInt(ReplaceFirst(res.ba, "k", <<"0", "0", "0">>))

\* a header of one line
HeaderOneLine == <<"#EXTM3U", "\n">>

\* let content = '#EXTM3U\n#EXT-X-VERSION:3\n'
Header == <<"#EXTM3U", "\n", "#EXT-X-VERSION:3", "\n">>

\* `#EXT-X-STREAM-INF:BANDWIDTH=${bandwidth},RESOLUTION=${res.width}x${res.height}\n`
StreamInf(res) ==
    <<"#EXT-X-STREAM-INF:BANDWIDTH=">> \o Digits(Bandwidth(res)) \o <<",RESOLUTION=">>
        \o Digits(res.width) \o <<"x">> \o Digits(res.height) \o <<"\n">>

\* `${res.name}/playlist.m3u8\n`
PlaylistPath(res) == <<res.name, "/playlist.m3u8", "\n">>

\* a loop that walks the catalog from its end
VisitedFromEnd(p) == p.resolutions[Len(p.resolutions) + 1 - p.next]

\* the element forEach hands to its callback
Visited(p) == p.resolutions[p.next]

ManifestFrame ==
    UNCHANGED <<now, budget, store, jobVars, sqsVars, pollVars, running, uploadResp, vcase, vtt, batch>>

\* let content = '#EXTM3U\n#EXT-X-VERSION:3\n'
M_Header ==
    /\ playlist.next = 0
    /\ ~playlist.written
    /\ playlist' = [playlist EXCEPT !.content = Header, !.next = 1]
    /\ ManifestFrame

\* one call of the forEach callback
M_Each ==
    /\ playlist.next \in 1..Len(playlist.resolutions)
    /\ playlist' = [playlist EXCEPT
                       !.content = @ \o StreamInf(Visited(playlist)) \o PlaylistPath(Visited(playlist)),
                       !.next = @ + 1]
    /\ ManifestFrame

\* await fs.writeFile(masterPlaylistPath, content)
M_Write ==
    /\ playlist.next = Len(playlist.resolutions) + 1
    /\ ~playlist.written
    /\ playlist' = [playlist EXCEPT !.written = TRUE]
    /\ ManifestFrame

InitManifest ==
    /\ now = 1
    /\ budget = -1
    /\ store = <<>>
    /\ JobIdle
    /\ queue = <<>>
    /\ launches = <<>>
    /\ PollerIdle
    /\ running = 0
    /\ uploadResp = [statusCode |-> 0, videoId |-> <<>>, key |-> <<>>]
    /\ vcase = NoCase
    /\ playlist \in {[NoPlaylist EXCEPT !.resolutions = c] : c \in Catalogs}
    /\ vtt = NoVtt
    /\ batch = NoBatch

NextManifest == M_Header \/ M_Each \/ M_Write

SpecManifest == InitManifest /\ [][NextManifest]_vars

\* ------------------------------------------------------------------------
\* SpecVtt: the thumbnail timeline generateSpriteSheet writes for a video of a
\* given duration (job/index.js 276-313, 360-369). Times are in milliseconds.
\* ------------------------------------------------------------------------
\* the durations tried are the multiples of DurationStep up to MaxDurationSteps steps
DurationStep == 7300

MaxDurationSteps == 70

Durations == {d * DurationStep : d \in 0..MaxDurationSteps} \cup {1, 4999, 5000, 5001, 12000}

thumbnailWidth == 160

thumbnailHeight == 90

intervalInSeconds == 5

\* const [cols] = '10x10'.split('x').map(Number)
cols == 10

IntervalMs == intervalInSeconds * 1000

\* Math.ceil(videoDuration / intervalInSeconds)
NumberOfTiles(duration) == (duration + IntervalMs - 1) \div IntervalMs

\* an end time that is not cut at the duration
EndTimeWhole(i, duration) == (i + 1) * IntervalMs

\* Math.min((i + 1) * intervalInSeconds, videoDuration)
EndTime(i, duration) ==
    IF (i + 1) * IntervalMs < duration THEN (i + 1) * IntervalMs ELSE duration

RECURSIVE PadStart(_, _)
\* s.padStart(n, '0')
PadStart(s, n) == IF Len(s) >= n THEN s ELSE PadStart(<<"0">> \o s, n)

\* formatTime(totalSeconds): hours and minutes padded to two digits, seconds with three
\* decimals padded to six characters, joined by ':'
FormatTime(ms) ==
    LET hours == ms \div 3600000
        minutes == (ms % 3600000) \div 60000
        seconds == ms % 60000
    IN  PadStart(Digits(hours), 2) \o <<":">> \o PadStart(Digits(minutes), 2) \o <<":">>
            \o PadStart(Digits(seconds \div 1000) \o <<".">> \o PadStart(Digits(seconds % 1000), 3), 6)

\* the two lines the loop appends for tile i
VttEntry(i, duration) ==
    [cue |-> FormatTime(i * IntervalMs) \o <<" --> ">> \o FormatTime(EndTime(i, duration)),
     tile |-> <<"sprite.jpg#xywh=">> \o Digits((i % cols) * thumbnailWidth) \o <<",">>
                  \o Digits((i \div cols) * thumbnailHeight) \o <<",">>
                  \o Digits(thumbnailWidth) \o <<",">> \o Digits(thumbnailHeight)]

VttFrame ==
    UNCHANGED <<now, budget, store, jobVars, sqsVars, pollVars, running, uploadResp, vcase, playlist, batch>>

\* one pass of for (let i = 0; i < numberOfTiles; i++)
W_Each ==
    /\ ~vtt.written
    /\ vtt.i < NumberOfTiles(vtt.duration)
    /\ vtt' = [vtt EXCEPT !.entries = Append(@, VttEntry(vtt.i, vtt.duration)), !.i = @ + 1]
    /\ VttFrame

\* await fs.writeFile(localVttPath, vttContent)
W_Write ==
    /\ ~vtt.written
    /\ vtt.i >= NumberOfTiles(vtt.duration)
    /\ vtt' = [vtt EXCEPT !.written = TRUE]
    /\ VttFrame

InitVtt ==
    /\ now = 1
    /\ budget = -1
    /\ store = <<>>
    /\ JobIdle
    /\ queue = <<>>
    /\ launches = <<>>
    /\ PollerIdle
    /\ running = 0
    /\ uploadResp = [statusCode |-> 0, videoId |-> <<>>, key |-> <<>>]
    /\ vcase = NoCase
    /\ playlist = NoPlaylist
    /\ vtt \in {[NoVtt EXCEPT !.duration = d] : d \in Durations}
    /\ batch = NoBatch

NextVtt == W_Each \/ W_Write

SpecVtt == InitVtt /\ [][NextVtt]_vars

\* ------------------------------------------------------------------------
\* Properties of one Job run (SpecJob)
\* ------------------------------------------------------------------------
\* the stage main() is in, by its position
StageOf(pc) ==
    CASE pc \in {"mkdir", "download"}            -> "DOWNLOADING"
      [] pc \in {"startEncode", "awaitEncode"}   -> "ENCODING"
      [] pc = "master"                           -> "ASSEMBLING"
      [] pc \in {"upload", "awaitUpload"}        -> "UPLOADING"
      [] pc \in {"statusDb", "manifest"}         -> "COMPLETED"
      [] pc \in {"catchDb", "catchManifest"}     -> "FAILED"
      [] OTHER                                   -> "CLEANUP"

\* the stage changes main() may make
StageSteps ==
    { <<"DOWNLOADING", "ENCODING">>, <<"ENCODING", "ASSEMBLING">>,
      <<"ASSEMBLING", "UPLOADING">>, <<"UPLOADING", "COMPLETED">>,
      <<"COMPLETED", "CLEANUP">>, <<"FAILED", "CLEANUP">> }
        \cup {<<st, "FAILED">> : st \in {"DOWNLOADING", "ENCODING", "ASSEMBLING", "UPLOADING", "COMPLETED"}}

\* the status of the last updateVideoMetadata call of the run
LastStatus == dbCalls[Len(dbCalls)].updates.status

MasterFile == <<"master.m3u8">>

\* the step writes the COMPLETED status
WritesCompleted ==
    /\ Len(dbCalls') = Len(dbCalls) + 1
    /\ dbCalls'[Len(dbCalls')].updates.status = <<"COMPLETED">>

C2_Order ==
    /\ StageOf(jpc') # StageOf(jpc) => <<StageOf(jpc), StageOf(jpc')>> \in StageSteps
    /\ (\E x \in Tasks : task[x] = "idle" /\ task'[x] # "idle") => jpc = "startEncode" /\ srcExists
    /\ (MasterFile \in outFiles' /\ MasterFile \notin outFiles) => \A x \in Tasks : task[x] = "ok"
    /\ uploaded' # uploaded =>
          /\ MasterFile \in DOMAIN upState
          /\ jpc \notin {"mkdir", "download", "startEncode", "awaitEncode", "master", "upload"}
    /\ WritesCompleted =>
          /\ upState # <<>>
          /\ \A f \in DOMAIN upState : upState[f] = "done" /\ S3Key(outputPrefix, f) \in uploaded
          /\ \A i \in DOMAIN dbCalls : dbCalls[i].updates.status # <<"FAILED">>
    /\ jpc' = "exited" =>
          /\ dbCalls # <<>>
          /\ LastStatus \in {<<"COMPLETED">>, <<"FAILED">>}
          /\ LastStatus = <<"COMPLETED">> <=> exitCode' = 0
          /\ LastStatus = <<"FAILED">> <=> exitCode' = 1

C3_CleanupAlways == jpc \in {"exit", "exited"} => rmCalls = {"output", "source"}

\* a run whose result-file upload failed inside the failure handler, after cleanup
C3_Witness ==
    /\ jpc = "exited"
    /\ error = ErrManifest
    /\ resultFile = <<>>
    /\ Len(dbCalls) = 1
    /\ LastStatus = <<"FAILED">>
    /\ rmCalls = {"output", "source"}

\* the positions of ASSEMBLING and UPLOADING and what follows them in the try block
PastJoin == {"master", "upload", "awaitUpload", "statusDb", "manifest"}

\* C10: under every interleaving of the N encodes and the sprite task, ASSEMBLING
\* starts only when all N + 1 tasks have succeeded; once one of them has failed,
\* ASSEMBLING and UPLOADING never start: main() is at none of their positions,
\* master.m3u8 is not written and nothing is uploaded.
C10_JoinBarrier ==
    /\ jpc \in PastJoin => \A x \in Tasks : task[x] = "ok"
    /\ (\E x \in Tasks : task[x] = "failed") =>
          /\ jpc \notin PastJoin
          /\ MasterFile \notin outFiles
          /\ upState = <<>>
          /\ uploaded = {}

\* one task failed while another one had succeeded and a third was still running, and
\* main() has gone to the failure handler
C10_Witness ==
    /\ jpc = "catchDb"
    /\ task["480p"] = "failed"
    /\ task["360p"] = "ok"
    /\ task["720p"] = "running"
    /\ task[Sprite] = "vtt"

\* C4: a Job that exits non-zero leaves its StatusRecord with status FAILED and the
\* error message of the failure.
C4_FailedRecorded ==
    (jpc = "exited" /\ exitCode = 1) =>
        /\ JobVideoId(env) \in DOMAIN store
        /\ store[JobVideoId(env)].status = <<"FAILED">>
        /\ store[JobVideoId(env)].errorMessage # Absent

\* ------------------------------------------------------------------------
\* Properties of two runs for the same key (SpecRerun)
\* ------------------------------------------------------------------------
\* the attributes of the record the Job writes
JobFields == {"status", "thumbnailUrl", "masterPlaylistUrl", "errorMessage", "completedAt"}

\* the value of attribute a comes from a write of the run that is finishing, or the
\* attribute is not set
FromThisRun(a) ==
    \/ store[JobVideoId(env)][a] = Absent
    \/ \E i \in DOMAIN dbCalls :
          /\ dbCalls[i].ok
          /\ a \in DOMAIN dbCalls[i].updates
          /\ dbCalls[i].updates[a] = store[JobVideoId(env)][a]

\* C9: after the Job has run twice for the same source key with different
\* disambiguators, every Job-written attribute of the record comes from the run that
\* finished last.
C9_LastRunWins ==
    (runs = 2 /\ jpc = "exited" /\ dbCalls # <<>> /\ dbCalls[Len(dbCalls)].ok) =>
        \A a \in JobFields : FromThisRun(a)

\* ------------------------------------------------------------------------
\* Properties of the polling Dispatcher (SpecPoller)
\* ------------------------------------------------------------------------
\* the delivery being processed is of a message with exactly one record
SingleRecord ==
    /\ cur # 0
    /\ queue[cur].body.kind = "records"
    /\ Len(CurRecords) = 1

\* the records the Dispatcher has rejected in this delivery
dRejected == dDecided \ dLaunched

\* the object key a launch was made for passes the Filename Contract Validator
ValidKey(key) == isValidVideoPath(key) /\ Includes(Basename(key), FILENAME_SEPARATOR)

C5_AckAfterAllDecided ==
    (cur # 0 /\ queue[cur].body.kind = "records") =>
        \A i \in DOMAIN dAcks : dAcks[i].decided = 1..Len(CurRecords)

\* C6: no Job is launched for a record whose decoded key fails the Filename Contract
\* Validator.
C6_NoLaunchForInvalid ==
    \A k \in DOMAIN launches : ValidKey(launches[k].env.VIDEO_KEY)

\* the launch this step adds repeats a launch already made for the same record of
\* message m
RepeatsLaunch(m) ==
    /\ Len(launches') = Len(launches) + 1
    /\ launches'[Len(launches')].msg = m
    /\ \E k \in DOMAIN launches :
          /\ launches[k].msg = m
          /\ launches[k].rec = launches'[Len(launches')].rec

StatusIn(s, id) == IF id \in DOMAIN s THEN s[id].status ELSE Absent

\* a step changes the status of a record only along PENDING, PROCESSING, COMPLETED,
\* and COMPLETED comes with both URLs (FAILED is left aside)
C7_Step ==
    \A id \in DOMAIN store' :
        StatusIn(store', id) # StatusIn(store, id) =>
            /\ StatusIn(store', id) = <<"PENDING">> => StatusIn(store, id) = Absent
            /\ StatusIn(store', id) = <<"PROCESSING">> => StatusIn(store, id) = <<"PENDING">>
            /\ StatusIn(store', id) = <<"COMPLETED">> =>
                  /\ StatusIn(store, id) = <<"PROCESSING">>
                  /\ store'[id].thumbnailUrl # Absent
                  /\ store'[id].masterPlaylistUrl # Absent

\* C7: in the end-to-end flow one and the same StatusRecord goes from PENDING to
\* PROCESSING to COMPLETED and ends with both URLs set.
C7_OneRecordLifecycle == [][C7_Step]_vars

\* C8: every write of the Job goes to the record key under which the Dispatcher
\* stored the PROCESSING record of the launch the Job belongs to.
C8_JobKeyIsLaunchKey ==
    running # 0 =>
        \A i \in DOMAIN dbCalls : dbCalls[i].videoId = launches[running].videoId

\* ------------------------------------------------------------------------
\* Failure of a concurrent task (SpecJob)
\* ------------------------------------------------------------------------
\* C11: once a rendition encode or the sprite task of a run has failed, no PutObject
\* call for a segment, playlist, sprite image, timeline index or master manifest is
\* ever sent, so nothing of the run is uploaded under the output prefix, whatever
\* the sibling tasks had produced.
C11_NoPartialUpload ==
    (\E x \in Tasks : task[x] = "failed") =>
        /\ DOMAIN upState = {}
        /\ uploaded = {}

\* a run has exited after the 480p encode failed while the 360p encode had
\* succeeded: the failure result file is there and nothing else was uploaded
C11_Witness ==
    /\ jpc = "exited"
    /\ task["480p"] = "failed"
    /\ task["360p"] = "ok"
    /\ resultFile # <<>>
    /\ uploaded = {}

\* the local output tree is gone and the finally block is past its removal
OutputRemoved == jpc \in {"cleanSrc", "exit", "exited"} /\ ~outExists

\* C12: after cleanup has removed the local output tree, no sibling task that is
\* still running creates a directory or a file in it.
C12_NoFileAfterCleanup ==
    [][OutputRemoved => ~outExists' /\ outDirs' = {} /\ outFiles' = {}]_vars

\* ------------------------------------------------------------------------
\* Properties of the Lambda Dispatcher (SpecLambda)
\* ------------------------------------------------------------------------
\* C13: any two launches the Dispatcher makes carry different videoId and different
\* OUTPUT_PREFIX values.
C13_LaunchesDistinct ==
    \A i \in DOMAIN launches : \A j \in DOMAIN launches :
        i # j =>
            /\ launches[i].videoId # launches[j].videoId
            /\ launches[i].env.OUTPUT_PREFIX # launches[j].env.OUTPUT_PREFIX

\* ------------------------------------------------------------------------
\* Properties of the polling Dispatcher as a running process (SpecPollerLive,
\* SpecPollerFair)
\* ------------------------------------------------------------------------
\* a launch of this delivery returned and every DeleteMessage of the delivery threw:
\* the loop is in its catch block with the message still in the queue
LaunchedNotAcked ==
    /\ ppc = "backoff"
    /\ dLaunched # {}
    /\ dAcks # <<>>
    /\ \A i \in DOMAIN dAcks : ~dAcks[i].ok

\* two launches for the same record of the same message, made in different deliveries
Duplicated ==
    \E i \in DOMAIN launches : \E j \in DOMAIN launches :
        /\ launches[i].msg = launches[j].msg
        /\ launches[i].rec = launches[j].rec
        /\ launches[i].delivery < launches[j].delivery
        /\ launches[i].env.VIDEO_KEY = launches[j].env.VIDEO_KEY

\* C14: when the RunTask call for a message returned and the DeleteMessage call that
\* follows it threw, the message is delivered again and a second Job is launched for
\* the same object key (when nothing fails after that).
C14_DuplicateOnAckFailure ==
    (LaunchedNotAcked /\ budget = 0) ~> Duplicated

\* the second Job has been launched in the second delivery of the message
C14_Witness ==
    /\ Duplicated
    /\ budget = 0
    /\ Len(launches) = 2
    /\ launches[1].delivery = 1
    /\ launches[2].delivery = 2

\* C17: the polling Dispatcher never leaves its loop: whatever throws, it is back at
\* the receive call again and again.
C17_PollsForever == []<>(ppc = "receive")

\* the loop is back at the receive call after a DeleteMessage call threw
C17_Witness ==
    /\ ppc = "receive"
    /\ cur # 0
    /\ dAcks # <<>>
    /\ ~dAcks[Len(dAcks)].ok

\* a launch of the delivery being handled failed: the handler issues no delete and the
\* message is still in the queue or in the dead-letter queue
UnackedOnFailure ==
    dFailed # {} =>
        /\ dAcks = <<>>
        /\ queue[cur].state \in {"inflight", "visible", "dlq"}

\* no message is received more than maxReceiveCount times
ReceivesBounded == \A m \in DOMAIN queue : queue[m].receives <= maxReceiveCount

\* a message in the dead-letter queue stays there as it is
DeadLetterStays ==
    \A m \in DOMAIN queue : queue[m].state = "dlq" => queue'[m] = queue[m]

\* C16: a delivery whose RunTask call failed leaves the message unacknowledged; no
\* message is received more than maxReceiveCount = 5 times, and a message moved to the
\* dead-letter queue is never delivered again.
C16_DeadLetterAfterMaxReceives ==
    [][UnackedOnFailure' /\ ReceivesBounded' /\ DeadLetterStays]_vars

\* the launch failed in each of five deliveries and the message is in the dead-letter
\* queue
C16_Witness ==
    /\ queue[1].state = "dlq"
    /\ queue[1].receives = maxReceiveCount
    /\ launches = <<>>
    /\ dFailed # {}

\* ------------------------------------------------------------------------
\* Properties of the key validator (SpecValidator)
\* ------------------------------------------------------------------------
\* the validator has given its verdict on the key
Decided == vcase.result \in {"accepted", "rejected"}

\* the key holds a character below 0x20
HasControl(k) == \E i \in 1..Len(k) : k[i] \in ControlChars

\* the key holds "../" or "..\"
HasTraversal(k) ==
    \E i \in 1..Len(k) :
        /\ i + 2 <= Len(k)
        /\ k[i] = "."
        /\ k[i + 1] = "."
        /\ k[i + 2] \in {"/", "\\"}

\* the key is not empty and made of allow-listed characters only
OnlyAllowed(k) == k # <<>> /\ \A i \in 1..Len(k) : k[i] \in AllowedChars

\* the final path segment of the key: the last non-empty piece between slashes
LastSegment(k) ==
    LET pieces == SelectSeq(Split(k, <<"/">>), LAMBDA s : s # <<>>)
    IN  IF pieces = <<>> THEN <<>> ELSE pieces[Len(pieces)]

\* the positions at which the separator occurs in s
SeparatorAt(s) == {i \in 1..Len(s) : OccursAt(s, FILENAME_SEPARATOR, i)}

C19_SeparatorInFinalSegment ==
    Decided =>
        /\ vcase.result = "accepted" => SeparatorAt(LastSegment(vcase.key)) # {}
        /\ vcase.key = KeyNoSeparator => vcase.result = "rejected"
        /\ vcase.key = KeyAlice =>
              /\ vcase.result = "accepted"
              /\ vcase.owner = <<"a", "l", "i", "c", "e">>
              /\ vcase.title = <<"m", "y", "c", "l", "i", "p", ".", "m", "p", "4">>

\* 'videos/alice###myclip.mp4' has been accepted
C19_Witness ==
    /\ vcase.key = KeyAlice
    /\ vcase.result = "accepted"

\* C20: for an accepted key, owner is the text of the filename before the first
\* separator and title is all of the text after that first separator.
C20_SplitAtFirstSeparator ==
    vcase.result = "accepted" =>
        LET filename == LastSegment(vcase.key)
            first == CHOOSE i \in SeparatorAt(filename) : \A j \in SeparatorAt(filename) : i <= j
        IN  /\ vcase.owner = SubSeq(filename, 1, first - 1)
            /\ vcase.title = SubSeq(filename, first + Len(FILENAME_SEPARATOR), Len(filename))

\* ------------------------------------------------------------------------
\* The overlay policy of the polling Dispatchers (SpecPoller)
\* ------------------------------------------------------------------------
\* the step in which the overlay lookup of a record ends
LookupEnds == ppc = "watermark" /\ ppc' # "watermark"

\* C21: in the overlay-required variant a record whose owner has no overlay entry is
\* dropped (no launch, the loop goes on to DeleteMessage), so every Job that variant
\* launches carries a non-empty WATERMARK_KEY; the variant without overlay launches
\* with no WATERMARK_KEY.
C21_OverlayPolicy ==
    [][ /\ (LookupEnds /\ wmKey' = <<>>) =>
              /\ ppc' = "delete"
              /\ launches' = launches
              /\ recIdx \in dDecided' \ dLaunched'
        /\ \A k \in DOMAIN launches' :
              IF variant = "overlay"
              THEN launches'[k].env.WATERMARK_KEY # <<>>
              ELSE launches'[k].env.WATERMARK_KEY = <<>> ]_vars

\* the overlay-required Dispatcher has dropped the one record of a message, whose key
\* passes the filename checks and whose owner has no overlay, and deleted the message
C21_Witness ==
    /\ variant = "overlay"
    /\ SingleRecord
    /\ recIdx = 1
    /\ dDecided = {1}
    /\ launches = <<>>
    /\ dAcks # <<>>
    /\ dAcks[1].ok
    /\ queue[cur].state = "deleted"
    /\ Accepted("plain", CurKey)
    /\ WatermarkTable(UsernameOf(CurKey)) = <<>>

\* the S3 record launch l was made for
RecordOf(l) == queue[l.msg].body.records[l.rec]

\* 'processed/<owner>###<title without extension>-<timestamp>/' for the key, at some
\* reading of the clock
PrefixForms(key) ==
    {<<"processed/">> \o ParseName(Basename(key)) \o <<"-">> \o Digits(t) \o <<"/">> :
        t \in 1..MaxClock}

\* C22: every launch binds SOURCE_BUCKET (the record's bucket), DESTINATION_BUCKET,
\* VIDEO_KEY (the decoded key) and OUTPUT_PREFIX, the latter of the form
\* 'processed/<owner>###<title without extension>-<timestamp>/'.
C22_LaunchEnvironment ==
    \A k \in DOMAIN launches :
        /\ launches[k].env.SOURCE_BUCKET = RecordOf(launches[k]).bucket
        /\ launches[k].env.DESTINATION_BUCKET # <<>>
        /\ launches[k].env.VIDEO_KEY = DecodeKey(RecordOf(launches[k]).key)
        /\ launches[k].env.OUTPUT_PREFIX \in PrefixForms(launches[k].env.VIDEO_KEY)

\* ------------------------------------------------------------------------
\* Properties of the master manifest (SpecManifest)
\* ------------------------------------------------------------------------
\* the lines of a text: its pieces between line feeds, without the empty piece after
\* the last line feed
Lines(text) ==
    LET pieces == Split(text, <<"\n">>)
    IN  IF pieces[Len(pieces)] = <<>> THEN SubSeq(pieces, 1, Len(pieces) - 1) ELSE pieces

IsStreamInf(line) == line # <<>> /\ line[1] = "#EXT-X-STREAM-INF:BANDWIDTH="

RECURSIVE DecimalValue(_)
\* the number a text of digits denotes
DecimalValue(s) ==
    IF s = <<>> THEN 0
    ELSE DecimalValue(SubSeq(s, 1, Len(s) - 1)) * 10 + DigitValue(s[Len(s)])

\* a bitrate written as digits and 'k', in bits per second
KiloBits(s) == DecimalValue(SubSeq(s, 1, Len(s) - 1)) * 1000

\* the text between BANDWIDTH= and ,RESOLUTION= of a stream-info line
BandwidthField(line) == SubSeq(line, 2, IndexOf(line, <<",RESOLUTION=">>) - 1)

\* the text after ,RESOLUTION= of a stream-info line
ResolutionField(line) == SubSeq(line, IndexOf(line, <<",RESOLUTION=">>) + 1, Len(line))

\* the positions of the stream-info lines of the written manifest, in order
StreamInfLines ==
    LET L == Lines(playlist.content)
    IN  SelectSeq([i \in 1..Len(L) |-> i], LAMBDA i : IsStreamInf(L[i]))

\* C23: the written master manifest has exactly one stream-info line per profile of the
\* catalog, in catalog order, each with that profile's bandwidth and
\* RESOLUTION=<width>x<height>, and each followed by '<name>/playlist.m3u8'.
C23_OneEntryPerProfileInOrder ==
    playlist.written =>
        LET L == Lines(playlist.content)
            at == StreamInfLines
        IN  /\ Len(at) = Len(playlist.resolutions)
            /\ \A k \in 1..Len(at) :
                  LET res == playlist.resolutions[k]
                  IN  /\ BandwidthField(L[at[k]]) = Digits(KiloBits(res.bv) + KiloBits(res.ba))
                      /\ ResolutionField(L[at[k]]) =
                            Digits(res.width) \o <<"x">> \o Digits(res.height)
                      /\ at[k] < Len(L)
                      /\ L[at[k] + 1] = <<res.name, "/playlist.m3u8">>

\* the manifest of the reference catalog has been written
C23_Witness ==
    /\ playlist.written
    /\ playlist.resolutions = RESOLUTIONS
    /\ Len(StreamInfLines) = 3

\* C24: the BANDWIDTH written for a profile is its video bitrate plus its audio
\* bitrate in bits per second, 'k' meaning a factor of 1000; the reference catalog
\* gives 896000, 1528000 and 2928000.
C24_BandwidthIsSum ==
    playlist.written =>
        LET L == Lines(playlist.content)
            at == StreamInfLines
        IN  /\ \A k \in 1..Len(at) :
                  /\ k <= Len(playlist.resolutions)
                  /\ DecimalValue(BandwidthField(L[at[k]])) =
                        KiloBits(playlist.resolutions[k].bv) + KiloBits(playlist.resolutions[k].ba)
            /\ playlist.resolutions = RESOLUTIONS =>
                  [k \in 1..Len(at) |-> DecimalValue(BandwidthField(L[at[k]]))]
                      = <<896000, 1528000, 2928000>>

\* the manifest of the catalog that holds only the 360p profile has been written with
\* BANDWIDTH=896000
C24_Witness ==
    /\ playlist.written
    /\ playlist.resolutions = <<RESOLUTIONS[1]>>
    /\ Len(StreamInfLines) = 1
    /\ BandwidthField(Lines(playlist.content)[StreamInfLines[1]]) = <<"8", "9", "6", "0", "0", "0">>

\* C30 as stated: the manifest for N renditions has exactly 1 + 2N lines, one of them
\* the header.
C30_OneHeaderLine ==
    playlist.written => Len(Lines(playlist.content)) = 1 + 2 * Len(playlist.resolutions)

\* C30 amended: the manifest starts with the two header lines #EXTM3U and
\* #EXT-X-VERSION:3, followed for each rendition by one stream-info line and one
\* playlist-path line: 2 + 2N lines for N renditions.
C30_TwoHeaderLines ==
    playlist.written =>
        LET L == Lines(playlist.content)
            N == Len(playlist.resolutions)
        IN  /\ Len(L) = 2 + 2 * N
            /\ L[1] = <<"#EXTM3U">>
            /\ L[2] = <<"#EXT-X-VERSION:3">>
            /\ \A k \in 1..N :
                  /\ IsStreamInf(L[2 * k + 1])
                  /\ ~IsStreamInf(L[2 * k + 2])
                  /\ L[2 * k + 2][Len(L[2 * k + 2])] = "/playlist.m3u8"

\* a manifest of two renditions has been written: six lines
C30_Witness ==
    /\ playlist.written
    /\ Len(playlist.resolutions) = 2
    /\ Len(Lines(playlist.content)) = 6

\* ------------------------------------------------------------------------
\* Properties of the thumbnail timeline (SpecVtt)
\* ------------------------------------------------------------------------
\* the milliseconds a text HH:MM:SS.mmm denotes
TimeValue(text) ==
    LET hms == Split(text, <<":">>)
        sec == Split(hms[3], <<".">>)
    IN  DecimalValue(hms[1]) * 3600000 + DecimalValue(hms[2]) * 60000
            + DecimalValue(sec[1]) * 1000 + DecimalValue(sec[2])

CueStart(e) == TimeValue(Split(e.cue, <<" --> ">>)[1])

CueEnd(e) == TimeValue(Split(e.cue, <<" --> ">>)[2])

\* <<x, y, w, h>> of an entry's tile line
Xywh(e) ==
    LET f == Split(Tail(e.tile), <<",">>)
    IN  [k \in 1..Len(f) |-> DecimalValue(f[k])]

\* the least number of intervals of 5 s that cover a duration
IntervalsToCover(duration) == CHOOSE n \in 0..(duration + 1) : n * 5000 >= duration /\ (n = 0 \/ (n - 1) * 5000 < duration)

\* C25: for a duration D and the interval of 5 s the timeline has exactly ceil(D/5)
\* entries; entry i runs from 5i to min(5(i+1), D) and points at the tile at
\* x = (i mod 10)*160, y = floor(i/10)*90, 160 wide and 90 high. D = 12 s gives three
\* entries [0,5), [5,10), [10,12) at (0,0), (160,0), (320,0).
C25_TimelineEntries ==
    vtt.written =>
        /\ Len(vtt.entries) = IntervalsToCover(vtt.duration)
        /\ \A k \in 1..Len(vtt.entries) :
              /\ CueStart(vtt.entries[k]) = (k - 1) * 5000
              /\ CueEnd(vtt.entries[k]) = IF k * 5000 <= vtt.duration THEN k * 5000 ELSE vtt.duration
              /\ Xywh(vtt.entries[k]) = <<((k - 1) % 10) * 160, ((k - 1) \div 10) * 90, 160, 90>>
        /\ vtt.duration = 12000 =>
              /\ [k \in 1..Len(vtt.entries) |-> vtt.entries[k].cue] =
                    << <<"0","0",":","0","0",":","0","0",".","0","0","0"," --> ","0","0",":","0","0",":","0","5",".","0","0","0">>,
                       <<"0","0",":","0","0",":","0","5",".","0","0","0"," --> ","0","0",":","0","0",":","1","0",".","0","0","0">>,
                       <<"0","0",":","0","0",":","1","0",".","0","0","0"," --> ","0","0",":","0","0",":","1","2",".","0","0","0">> >>
              /\ [k \in 1..Len(vtt.entries) |-> SubSeq(Xywh(vtt.entries[k]), 1, 2)] =
                    << <<0, 0>>, <<160, 0>>, <<320, 0>> >>

\* the timeline of a video of 12 s has been written
C25_Witness ==
    /\ vtt.written
    /\ vtt.duration = 12000
    /\ Len(vtt.entries) = 3

\* C26: every entry of the timeline points at a tile inside the one sheet of 10 by 10
\* tiles: there are at most 100 entries and every entry has y < 900.
C26_TilesInsideSheet ==
    /\ Len(vtt.entries) <= 100
    /\ \A k \in 1..Len(vtt.entries) : Xywh(vtt.entries[k])[2] < 900

\* ------------------------------------------------------------------------
\* Properties of the result file and of the cleanup (SpecJob)
\* ------------------------------------------------------------------------
\* C27: in every result file uploaded masterPlaylist is null unless the status is
\* COMPLETED and error is null unless the status is FAILED; a COMPLETED result file has
\* a thumbnailUrl and a masterPlaylistUrl and no error.
C27_ResultFileFields ==
    \A k \in DOMAIN resultFile :
        /\ resultFile[k].masterPlaylist # Absent => resultFile[k].status = <<"COMPLETED">>
        /\ resultFile[k].error # Absent => resultFile[k].status = <<"FAILED">>
        /\ resultFile[k].status = <<"COMPLETED">> =>
              /\ resultFile[k].thumbnailUrl # Absent
              /\ resultFile[k].masterPlaylistUrl # Absent
              /\ resultFile[k].error = Absent

\* a FAILED result file has been uploaded: it names no master playlist
C27_Witness ==
    /\ resultFile # <<>>
    /\ resultFile[1].status = <<"FAILED">>
    /\ resultFile[1].error # Absent
    /\ resultFile[1].masterPlaylist = Absent

InCleanup == jpc \in {"cleanOut", "cleanSrc"}

\* C28: a removal in the finally block, failed or not, leaves the status record, the
\* status updates issued, the result file, the pending error and the exit code as they
\* were and hands over to the next step: the removal of the source file follows the
\* removal of the output tree, and the Job exits having attempted both, with the exit
\* code the error pending before the cleanup decides.
C28_CleanupNeverRethrows ==
    [][ /\ InCleanup =>
              /\ store' = store
              /\ dbCalls' = dbCalls
              /\ resultFile' = resultFile
              /\ error' = error
              /\ exitCode' = exitCode
        /\ (InCleanup /\ jpc' # jpc) =>
              jpc' = IF jpc = "cleanOut" THEN "cleanSrc" ELSE "exit"
        /\ (jpc = "exit" /\ jpc' = "exited") =>
              /\ rmCalls' = {"output", "source"}
              /\ exitCode' = IF error = <<>> THEN 0 ELSE 1 ]_vars

\* both removals failed (the output tree and the source file are still there) and the
\* Job has exited with code 0 after a COMPLETED result file
C28_Witness ==
    /\ jpc = "exited"
    /\ exitCode = 0
    /\ rmCalls = {"output", "source"}
    /\ outExists
    /\ srcExists
    /\ resultFile # <<>>
    /\ resultFile[Len(resultFile)].status = <<"COMPLETED">>

\* ------------------------------------------------------------------------
\* Properties of the status records (SpecLambda, SpecPipeline)
\* ------------------------------------------------------------------------
StatusValues == {<<"PENDING">>, <<"PROCESSING">>, <<"COMPLETED">>, <<"FAILED">>}

TerminalValues == {<<"COMPLETED">>, <<"FAILED">>}

\* the Lambda Dispatcher's PutCommand has succeeded in this step
DispatcherWrites == ppc = "store" /\ ppc' = "runTask"

\* getUploadUrl's PutCommand has succeeded in this step
UploadWrites == uploadResp.statusCode = 0 /\ uploadResp'.statusCode = 200

\* the step is one of the Job's two calls of updateVideoMetadata
JobWrites == jpc \in {"statusDb", "catchDb"} /\ jpc' # jpc

\* every status stored is one of the four values, the Dispatcher and getUploadUrl
\* store PROCESSING and PENDING, terminal values appear only in steps of the Job, and
\* no record disappears
StatusWriters ==
    /\ \A id \in DOMAIN store' : store'[id].status \in StatusValues
    /\ DispatcherWrites => store'[metadata.videoId].status = <<"PROCESSING">>
    /\ UploadWrites => store'[uploadResp'.videoId].status = <<"PENDING">>
    /\ \A id \in DOMAIN store' :
          (/\ store'[id].status \in TerminalValues
           /\ id \notin DOMAIN store \/ store[id] # store'[id]) => JobWrites
    /\ DOMAIN store \subseteq DOMAIN store'

\* the Dispatcher and getUploadUrl put their record under an id that holds no record
CreatorsOnlyCreate ==
    /\ DispatcherWrites => metadata.videoId \notin DOMAIN store
    /\ UploadWrites => uploadResp'.videoId \notin DOMAIN store

StatusWritersOnly == [][StatusWriters]_vars

\* C29: a status is always PENDING, PROCESSING, COMPLETED or FAILED; getUploadUrl and
\* the Dispatcher write only PENDING or PROCESSING and only when they create a record;
\* only the Job writes COMPLETED and FAILED; no record is ever deleted.
C29_StatusLifecycle == [][StatusWriters /\ CreatorsOnlyCreate]_vars

\* ------------------------------------------------------------------------
\* Properties of the failure and exit paths of one Job run (SpecJob)
\* ------------------------------------------------------------------------
\* the messages a task can reject with
TaskErrors(x) ==
    IF x = Sprite THEN {ErrProbe, ErrSprite, ErrVtt} ELSE {ErrResMkdir(x), ErrFfmpeg(x)}

FailsNow(x) == task[x] # "failed" /\ task'[x] = "failed"

\* C32: the error of the join is the error of the task that failed first, later
\* failures never replace it, and once a task has failed every FAILED update issued
\* and every result file uploaded carries that error.
C32_FirstFailureRecorded ==
    [][ /\ \A x \in Tasks :
              FailsNow(x) =>
                  IF \A y \in Tasks : task[y] # "failed"
                  THEN joinErr' \in TaskErrors(x)
                  ELSE joinErr' = joinErr
        /\ joinErr' # joinErr => \E x \in Tasks : FailsNow(x)
        /\ (\E x \in Tasks : task'[x] = "failed") =>
              /\ \A k \in DOMAIN dbCalls' :
                    /\ dbCalls'[k].updates.status = <<"FAILED">>
                    /\ dbCalls'[k].updates.errorMessage = joinErr'
              /\ \A k \in DOMAIN resultFile' :
                    /\ resultFile'[k].status = <<"FAILED">>
                    /\ resultFile'[k].error = joinErr' ]_vars

\* the 480p encode failed first and the 360p encode after it; the record and the
\* result file name the 480p error
C32_Witness ==
    /\ jpc = "exited"
    /\ task["480p"] = "failed"
    /\ task["360p"] = "failed"
    /\ resultFile # <<>>
    /\ resultFile[1].error = ErrFfmpeg("480p")
    /\ JobVideoId(env) \in DOMAIN store
    /\ store[JobVideoId(env)].status = <<"FAILED">>
    /\ store[JobVideoId(env)].errorMessage = ErrFfmpeg("480p")

\* the updateVideoMetadata calls of the run that reached the store
StatusWritten == {k \in DOMAIN dbCalls : dbCalls[k].ok}

\* C33: a run writes at most one terminal status to its record; after it has written
\* COMPLETED it never writes FAILED.
C33_OneTerminalStatus ==
    /\ Cardinality(StatusWritten) <= 1
    /\ \A i \in StatusWritten, j \in StatusWritten :
          (i < j /\ dbCalls[i].updates.status = <<"COMPLETED">>) =>
              dbCalls[j].updates.status # <<"FAILED">>

\* C34: when the run has exited with code 0, the record of its video is COMPLETED with
\* the run's thumbnailUrl and masterPlaylistUrl, and the result file uploaded has the
\* status of the record.
C34_ExitZeroMeansCompleted ==
    (jpc = "exited" /\ exitCode = 0) =>
        /\ JobVideoId(env) \in DOMAIN store
        /\ store[JobVideoId(env)].status = <<"COMPLETED">>
        /\ store[JobVideoId(env)].thumbnailUrl = ThumbnailUrl(outputPrefix)
        /\ store[JobVideoId(env)].masterPlaylistUrl = MasterPlaylistUrl(outputPrefix)
        /\ resultFile # <<>>
        /\ resultFile[Len(resultFile)].status = store[JobVideoId(env)].status

\* ------------------------------------------------------------------------
\* Properties of the Dispatchers' failure paths (SpecLambda, SpecPoller)
\* ------------------------------------------------------------------------
\* C35: between two invocations of the Lambda Dispatcher every PROCESSING record in
\* the store belongs to a launch that succeeded.
C35_ProcessingMeansLaunched ==
    ppc = "invoke" =>
        \A id \in DOMAIN store :
            store[id].status = <<"PROCESSING">> =>
                \E k \in DOMAIN launches : launches[k].videoId = id

\* the message in hand is deleted in this step although no Job was launched for the
\* record in hand
AckWithoutLaunch ==
    /\ ppc = "delete"
    /\ queue[cur].state # "deleted"
    /\ queue'[cur].state = "deleted"
    /\ recIdx \notin dLaunched

\* C36: the Dispatcher with overlay lookup deletes a message without a launch only for
\* an empty body, a test event, a file name without separator or an owner without
\* overlay entry; not when the lookup of an owner who has an entry failed.
C36_AckOnlyForListedReasons ==
    [][ (variant = "overlay" /\ AckWithoutLaunch) =>
            \/ queue[cur].body.kind \in {"empty", "test"}
            \/ /\ recIdx >= 1
               /\ \/ ~Accepted("overlay", CurKey)
                  \/ WatermarkTable(UsernameOf(CurKey)) = <<>> ]_vars

\* ------------------------------------------------------------------------
\* Progress of the polling Dispatcher (SpecPollerLive)
\* ------------------------------------------------------------------------
\* C37: with no call failing any more, a message the polling Dispatcher has received
\* is eventually acknowledged, whatever its body is.
C37_EveryReceivedAcked ==
    (queue[1].state = "inflight" /\ budget = 0) ~> (queue[1].state = "deleted")

\* the launch call for a record has thrown after a Job was launched for an earlier
\* record of the same message, and no call fails from here on
LaterLaunchFailed ==
    /\ ppc = "backoff"
    /\ dFailed # {}
    /\ dLaunched # {}
    /\ budget = 0

EveryRecordLaunched ==
    \A r \in DOMAIN queue[1].body.records :
        \E k \in DOMAIN launches : launches[k].rec = r

\* C38: when the launch call for a later record of a message failed after an earlier
\* record of the message was launched, and launch calls succeed from then on, a Job
\* is eventually launched for every record of the message.
C38_NoRecordLost == LaterLaunchFailed ~> EveryRecordLaunched

\* ------------------------------------------------------------------------
\* Properties of the Lambda handler on a batch (SpecBatch)
\* ------------------------------------------------------------------------
HandlerStarts == batch.hpc = "idle" /\ batch'.hpc = "await"

HandlerSettles == batch.hpc = "await" /\ batch'.hpc = "idle"

\* C31: the handler starts processMessage for every message of the batch at once; a
\* message is deleted only when the handler resolves, which it does only when every
\* processMessage of the batch returned without error, and then the whole batch is
\* deleted; when any processMessage threw, the handler rejects and no message of the
\* batch is deleted, the ones a Job was launched for included, so all of them come
\* back.
C31_BatchAllOrNothing ==
    [][ /\ HandlerStarts =>
              \A m \in DOMAIN batch'.members :
                  /\ batch'.members[m].pc = "parse"
                  /\ queue'[m].state = "inflight"
        /\ \A m \in DOMAIN queue :
              (queue[m].state # "deleted" /\ queue'[m].state = "deleted") =>
                  /\ HandlerSettles
                  /\ m \in Members
                  /\ \A x \in Members :
                        /\ batch.members[x].pc = "resolved"
                        /\ queue'[x].state \in {"deleted", "dlq"}
        /\ (HandlerSettles /\ \E x \in Members : batch.members[x].pc = "rejected") =>
              /\ queue' = queue
              /\ \A x \in Members : queue[x].state \in {"inflight", "visible", "dlq"} ]_vars

\* message 2 is not JSON; message 1 was launched in the first delivery of the batch,
\* came back with it and has been launched again in the second, with no call failing
C31_Witness ==
    /\ Len(queue) = 2
    /\ queue[2].body.kind = "badjson"
    /\ budget = MaxFaults
    /\ Members = {1, 2}
    /\ queue[2].receives = 2
    /\ \E i \in DOMAIN launches : \E j \in DOMAIN launches :
          /\ launches[i].msg = 1
          /\ launches[j].msg = 1
          /\ launches[i].delivery = 1
          /\ launches[j].delivery = 2

====
